---------------------------- MODULE Spec2Model ----------------------------
(***************************************************************************)
(* Export driver of the screen recorder (VideoExporter) in its three       *)
(* variants, the off-screen media element and the frame sink it talks to.  *)
(*                                                                         *)
(*   variant 1  src/screen-record/src/lib/videoExporter.ts, lines 17-139   *)
(*              (native export, crop-aware dimensions, blob extraction)    *)
(*   variant 2  src/screen-record/src/lib/videoExporter.ts, lines 158-218  *)
(*              (native export, preset table only)                         *)
(*   variant 3  src/unnamed/part_001, lines 166-302                        *)
(*              (frame streaming: seek, render, encode, POST, finish)      *)
(*                                                                         *)
(* Time is counted in ticks of 1/fps seconds (fps = 60), so that the loop  *)
(* step dt * speed is the integer speed.  One action is one run of the     *)
(* JavaScript code between two awaits.                                     *)
(***************************************************************************)
EXTENDS Integers, Sequences, FiniteSets, TLC

VARIABLES
  variant,        \* which VideoExporter implementation is built in
  isExporting,    \* VideoExporter.isExporting
  shouldStop,     \* VideoExporter.shouldStop (variant 3)
  pc,             \* await the accepted exportAndDownload call is suspended at
  opts,           \* options of the accepted call
  currentTime,    \* loop variable currentTime, also exportVideo.currentTime
  videoAttached,  \* exportVideo is a child of document.body
  seekPending,    \* exportVideo has not fired 'seeked' for currentTime yet
  frameTime,      \* media time of the frame exportVideo can currently draw
  canvasImg,      \* media time of the frame drawn on the canvas (-1: none)
  lastRender,     \* <<timestamp, drawn media time>> of the last drawn frame
  inflight,       \* frame POSTs sent and not yet received by the sink
  sinkFrames,     \* frames the sink has received, in arrival order
  serverUp,       \* start_export_server has answered with a port
  finishCalls,    \* POST /finish requests sent by this export
  finishAcked,    \* the sink has answered POST /finish
  progress,       \* values passed to onProgress, as numerators over Range
  result,         \* how the accepted call settled
  attempts,       \* parity of the number of exportAndDownload calls made
  busyError,      \* the latest call threw 'Export already in progress'
  cancelPhases,   \* phases in which cancel() was called for this export
  cancelAt,       \* currentTime at the first cancel() made while streaming (-1: none)
  noBlob,         \* timestamps for which canvas.toBlob gave null
  sinkError,      \* the sink call of this export that failed ("none": none)
  videoDataArray, \* variant 1: let videoDataArray ("null" or "bytes")
  audioDataArray, \* variant 1: let audioDataArray ("null" or "bytes")
  startCalls,     \* configs of the start_export_server calls of this export
  extractFailed,  \* media whose byte extraction failed (console.error)
  dimIn,          \* inputs of the dimension negotiation of one call
  dimOut,         \* the width and height it passes to start_export_server
  isDrawing,      \* VideoRenderer.isDrawing
  drawPc,         \* statement the drawFrame call that set isDrawing is at
  drawIn,         \* what that call finds: video size, temp context, a throw
  lastDrawTime,   \* VideoRenderer.lastDrawTime, as the number of the call
  drawn,          \* frames composited onto the canvas
  ticks,          \* drawFrame calls made so far
  lastCall,       \* how the latest drawFrame call went on from its guards
  zin,            \* the segment, pointer trace and video size of one generation
  zpc,            \* generateMotionPath / playback position
  simT,           \* generateMotionPath: loop variable t
  state,          \* generateMotionPath: let state (PhysicsState)
  interaction,    \* generateMotionPath: let interaction (InteractionState)
  target,         \* what the latest iteration measured and aimed at
  path,           \* generateMotionPath: const path
  playTime,           \* video.currentTime of the latest frame of the playback
  lastCalculatedState, \* VideoRenderer.lastCalculatedState
  isExportMode,   \* drawFrame: const isExportMode of the latest call
  scrubs,         \* seeks made by the user or by the start of an export pass
  isDraggingText,  \* VideoRenderer.isDraggingText
  draggedTextId,  \* VideoRenderer.draggedTextId
  dragOffset,  \* VideoRenderer.dragOffset
  textStyle,  \* style.x, style.y of the text segment (percent)
  highlighted,  \* the latest frame shows the drag highlight rectangle
  currentSquishScale,  \* VideoRenderer.currentSquishScale, in 1/10000
  lastHoldTime,  \* VideoRenderer.lastHoldTime, in 1/120 s, -1 when none
  animating,  \* VideoRenderer.animationFrame !== null
  squishIn,  \* the frame drawn last: time, click, cursor inside the crop, elapsed
  canvasSize,  \* canvas.width, canvas.height of the export canvas
  frameSizes,  \* sizes of the frames encoded from the canvas for the sink
  smoothedPositions,  \* VideoRenderer.smoothedPositions, <<>> for null
  cursorIn,  \* the time and the trace of the latest cursor resolution
  cursorOut   \* what interpolateCursorPosition returned last: {} for null

expVars == <<variant, isExporting, shouldStop, pc, opts, currentTime,
             videoAttached, seekPending, frameTime, canvasImg, lastRender,
             inflight, sinkFrames, serverUp, finishCalls, finishAcked,
             progress, result, attempts, busyError, cancelPhases, cancelAt,
             noBlob, sinkError, videoDataArray, audioDataArray, startCalls,
             extractFailed>>

dimVars == <<dimIn, dimOut>>

drawVars == <<isDrawing, drawPc, drawIn, lastDrawTime, drawn, ticks, lastCall>>

zoomVars == <<zin, zpc, simT, state, interaction, target, path, playTime,
             lastCalculatedState>>

(* What the renderer keeps from one drawFrame call to the next *)
textVars == <<isDraggingText, draggedTextId, dragOffset, textStyle,
              highlighted>>

squishVars == <<currentSquishScale, lastHoldTime, animating, squishIn>>

canvasVars == <<canvasSize, frameSizes>>

cursorVars == <<smoothedPositions, cursorIn, cursorOut>>

renVars == <<isExportMode, scrubs, textVars, squishVars, canvasVars,
             cursorVars>>

vars == <<expVars, dimVars, drawVars, zoomVars, renVars>>

(* What the actions of one part of the model leave unchanged *)
notExp == <<dimVars, drawVars, zoomVars, renVars>>
notDim == <<expVars, drawVars, zoomVars, renVars>>
notDraw == <<expVars, dimVars, zoomVars, renVars>>
notZoom == <<expVars, dimVars, drawVars, renVars>>
notRen == <<expVars, dimVars, drawVars>>
notText == <<expVars, dimVars, drawVars, zoomVars, scrubs, squishVars,
             canvasVars, cursorVars>>
notSquish == <<expVars, dimVars, drawVars, zoomVars, scrubs, textVars,
               canvasVars>>
notCanvas == <<expVars, drawVars, zoomVars, scrubs, textVars, squishVars,
               cursorVars>>

-----------------------------------------------------------------------------
(* Bounds of the model *)

MaxTrimStart == 1
MaxLen == 3
MaxSpeed == 2
MaxVideoSize == 3
CropDen == 4

(* const fps = 60: one tick is 1/fps s, so dt = 1/fps is one tick. *)
dt == 1

Min(a, b) == IF a < b THEN a ELSE b

Variants == 1..3

Options ==
  [ trimStart : 0..MaxTrimStart,
    len       : 1..MaxLen,
    speed     : 1..MaxSpeed,
    missing   : BOOLEAN,     \* a required element (video, segment, canvas) is absent
    videoBlob : BOOLEAN,     \* video.src starts with 'blob:'
    audioBlob : BOOLEAN ]    \* audio.src starts with 'blob:' and no audioFilePath

NoOptions ==
  [ trimStart |-> 0, len |-> 1, speed |-> 1, missing |-> FALSE,
    videoBlob |-> FALSE, audioBlob |-> FALSE ]

(* Options a variant looks at: the others are kept at their default. *)
OptionsOf(v) ==
  { o \in Options :
      /\ (v # 3 => o.trimStart = 0 /\ o.len = 1 /\ o.speed = 1 /\ ~o.missing)
      /\ (v # 1 => ~o.videoBlob /\ ~o.audioBlob) }

trimEnd(o) == o.trimStart + o.len

(* const step = dt * speed *)
step(o) == dt * o.speed

(* endTime - segment.trimStart, the denominator of the progress value *)
Range(o) == trimEnd(o) - o.trimStart

(* Math.min(progress, 99) with progress = (ct - trimStart) / Range * 100,   *)
(* as the numerator of a fraction over Range(o).                            *)
ProgressValue(o, ct) == Min(100 * (ct - o.trimStart), 99 * Range(o))

(* Phase of the export state machine the accepted call is in. *)
Phase ==
  CASE pc \in {"load", "fetchVideo", "fetchAudio", "invoke"} -> "Starting"
    [] pc \in {"seek", "render", "encode", "submit"}         -> "Streaming"
    [] pc = "finish"                                          -> "Finishing"
    [] OTHER                                                  -> "Idle"

-----------------------------------------------------------------------------
(* Dimension negotiation at the start of exportAndDownload *)

(* A JavaScript number: an integer, or one of the non-finite values. *)
Num(n) == [kind |-> "int", v |-> n]
Infinity == [kind |-> "Infinity", v |-> 0]
NaN == [kind |-> "NaN", v |-> 0]

DIMENSION_PRESETS ==
  [ original |-> [width |-> 0, height |-> 0],
    p1080    |-> [width |-> 1920, height |-> 1080],
    p720     |-> [width |-> 1280, height |-> 720] ]

(* options.dimensions: the three preset names and a name the table lacks *)
DimensionNames == {"original", "1080p", "720p", "4k"}

(* DIMENSION_PRESETS[options.dimensions] || DIMENSION_PRESETS['1080p'] *)
PresetOf(name) ==
  CASE name = "original" -> DIMENSION_PRESETS.original
    [] name = "720p"     -> DIMENSION_PRESETS.p720
    [] OTHER             -> DIMENSION_PRESETS.p1080

(* Math.round(a / b) for a >= 0 and b > 0: halves round up *)
RoundDiv(a, b) == (a \div b) + (IF 2 * (a % b) >= b THEN 1 ELSE 0)

(* if (width % 2 !== 0) width--;  a non-finite width gives NaN !== 0, and   *)
(* the decrement leaves it non-finite.                                      *)
MakeEven(n) ==
  IF n.kind = "int" THEN (IF n.v % 2 # 0 THEN Num(n.v - 1) ELSE n) ELSE n

(* video?.videoWidth || 1920 and video?.videoHeight || 1080 *)
OrDefault(n, d) == IF n = 0 THEN d ELSE n

(* Math.round(vidW * crop.width), with segment?.crop || the full frame;     *)
(* crop.width is c / CropDen.                                               *)
Cropped(vid, in, c) == IF in.hasCrop THEN RoundDiv(vid * c, CropDen) ELSE vid

(* Math.round(height * (croppedW / croppedH)) *)
ScaledWidth(height, croppedW, croppedH) ==
  IF croppedH = 0
  THEN (IF croppedW = 0 THEN NaN ELSE Infinity)
  ELSE Num(RoundDiv(height * croppedW, croppedH))

(* Variant 1: videoExporter.ts lines 29-60 *)
Dimensions1(in) ==
  LET preset == PresetOf(in.dimensions)
      vidW == OrDefault(in.videoWidth, 1920)
      vidH == OrDefault(in.videoHeight, 1080)
      croppedW == Cropped(vidW, in, in.cropW)
      croppedH == Cropped(vidH, in, in.cropH)
      width == IF preset.height = 0 THEN Num(croppedW)
               ELSE ScaledWidth(preset.height, croppedW, croppedH)
      height == IF preset.height = 0 THEN Num(croppedH) ELSE Num(preset.height)
  IN  [width |-> MakeEven(width), height |-> MakeEven(height)]

(* Variant 2: videoExporter.ts lines 169-178 *)
Dimensions2(in) ==
  LET preset == PresetOf(in.dimensions)
  IN  IF preset.width = 0 \/ preset.height = 0
      THEN [width  |-> MakeEven(Num(OrDefault(in.videoWidth, 1920))),
            height |-> MakeEven(Num(OrDefault(in.videoHeight, 1080)))]
      ELSE [width |-> Num(preset.width), height |-> Num(preset.height)]

(* Variant 3: part_001 lines 196-206 *)
Dimensions3(in) ==
  LET preset == PresetOf(in.dimensions)
  IN  IF preset.width = 0 \/ preset.height = 0
      THEN [width  |-> MakeEven(Num(in.videoWidth)),
            height |-> MakeEven(Num(in.videoHeight))]
      ELSE [width |-> Num(preset.width), height |-> Num(preset.height)]

NegotiatedDimensions(v, in) ==
  CASE v = 1 -> Dimensions1(in)
    [] v = 2 -> Dimensions2(in)
    [] OTHER -> Dimensions3(in)

(* videoWidth and videoHeight of the source video (0: no video or not loaded) *)
VideoWidths == (0..MaxVideoSize) \cup {1920}
VideoHeights == (0..MaxVideoSize) \cup {1080}

(* Only variant 1 reads segment.crop. *)
DimInputs(v) ==
  { in \in [ dimensions  : DimensionNames,
             videoWidth  : VideoWidths,
             videoHeight : VideoHeights,
             hasCrop     : BOOLEAN,
             cropW       : 0..CropDen,
             cropH       : 0..CropDen ] :
      /\ (v # 1 => ~in.hasCrop)
      /\ (~in.hasCrop => in.cropW = CropDen /\ in.cropH = CropDen) }

NoDimInput ==
  [ dimensions |-> "original", videoWidth |-> 0, videoHeight |-> 0,
    hasCrop |-> FALSE, cropW |-> CropDen, cropH |-> CropDen ]

-----------------------------------------------------------------------------
(* VideoRenderer.drawFrame: inputs of one call *)

(* What a drawFrame call finds when it runs *)
DrawInputs ==
  [ missing    : BOOLEAN,    \* !video || !canvas || !segment
    ready      : BOOLEAN,    \* video.readyState >= 2
    hasCtx     : BOOLEAN,    \* canvas.getContext('2d') is not null
    zeroSize   : BOOLEAN,    \* !vidW || !vidH
    hasTempCtx : BOOLEAN,    \* tempCanvas.getContext('2d') is not null
    throws     : BOOLEAN ]   \* a statement of the try body throws

NoDrawInput ==
  [ missing |-> FALSE, ready |-> TRUE, hasCtx |-> TRUE, zeroSize |-> FALSE,
    hasTempCtx |-> TRUE, throws |-> FALSE ]

-----------------------------------------------------------------------------
(* AutoZoomGenerator (src/unnamed/part_002) and the camera state the        *)
(* compositor resolves (videoRenderer.ts lines 429-561).                    *)
(*                                                                          *)
(* JavaScript numbers are modelled in fixed point, every division rounding  *)
(* to the nearest unit:                                                     *)
(*   time                  1/3000 s  (dt = 1/60 s = 50, 1 ms = 3)           *)
(*   pixel positions       1/100 px in the simulation, 1/10 px in the path  *)
(*   zoom, normalised pos  1/10000                                          *)
(*   weights, factors      1/1000                                           *)
(*   velocities            1/100 of the unit of the quantity, per second    *)

Second == 3000
PosUnit == 100
ZoomUnit == 10000
WeightUnit == 1000
VelUnit == 100
FramesPerSecond == 60

(* Bound of the model: ticks of the simulation after the first one *)
SimTicks == 130

(* const PHYSICS = { ... } *)
TENSION == 25
FRICTION == 25
MASS == 3
LOOK_AHEAD == 600
MAX_VELOCITY_ZOOM_PENALTY == 1000
BASE_ZOOM == 14000
MIN_ZOOM == 10000
MAX_ZOOM == 20000

(* const dt = 1 / 60 *)
PhysicsDt == Second \div FramesPerSecond

Abs(a) == IF a < 0 THEN -a ELSE a
Max(a, b) == IF a > b THEN a ELSE b

(* a / b rounded to the nearest unit, b > 0 *)
Div(a, b) == IF a >= 0 THEN RoundDiv(a, b) ELSE -RoundDiv(-a, b)

RECURSIVE SqrtIter(_, _, _)
SqrtIter(n, lo, hi) ==
  IF lo >= hi THEN lo
  ELSE LET mid == (lo + hi + 1) \div 2
       IN  IF mid * mid <= n THEN SqrtIter(n, mid, hi)
           ELSE SqrtIter(n, lo, mid - 1)

(* Math.sqrt, rounded down to a unit *)
Sqrt(n) == SqrtIter(n, 0, Min(n, 46340))

(* Math.sqrt(Math.pow(dx, 2) + Math.pow(dy, 2)) for dx, dy in 1/100 px,     *)
(* in 1/10 px                                                               *)
Dist(dx, dy) ==
  LET ax == Div(dx, 10)
      ay == Div(dy, 10)
  IN  Sqrt(ax * ax + ay * ay)

(* Math.cos(r * Math.PI) for r = num / den in [0, 1], in weight units, by   *)
(* Bhaskara's rational approximation cos(pi r) = (1 - 4 r^2) / (1 + r^2)    *)
(* on [0, 1/2], mirrored on [1/2, 1]: exact at r = 0, 1/3, 1/2, 2/3 and 1,  *)
(* within 0.002 elsewhere.                                                  *)
CosPiLow(r) == Div(WeightUnit * (1000000 - 4 * r * r), 1000000 + r * r)
CosPi(num, den) ==
  LET r == RoundDiv(1000 * num, den)
  IN  IF 2 * r <= 1000 THEN CosPiLow(r) ELSE -CosPiLow(1000 - r)

(* a * (1 - w) + b * w for a weight w *)
Blend(a, b, w) == Div(a * (WeightUnit - w) + b * w, WeightUnit)

(* Number(t.toFixed(3)): a time rounded to the millisecond *)
ToFixed3(t) == 3 * RoundDiv(t, 3)

(* Number(x.toFixed(1)): a position in 1/10 px *)
ToFixed1(x) == Div(x, 10)

(* Number(zoom.toFixed(3)) *)
ToFixedZoom(z) == 10 * RoundDiv(z, 10)

-----------------------------------------------------------------------------
(* Inputs of the generator and of the compositor *)

(* A MousePosition: timestamp, x and y in px, isClicked *)
Pos(t, x, y, c) ==
  [ timestamp |-> t, x |-> x * PosUnit, y |-> y * PosUnit, isClicked |-> c ]

(* A ZoomKeyframe: time, zoomFactor, positionX and positionY in 1/10000 *)
Kf(t, z, px, py) ==
  [ time |-> t, duration |-> Second \div 2, zoomFactor |-> z,
    positionX |-> px, positionY |-> py, easingType |-> "easeInOut" ]

(* A zoom influence point: time and value in weight units *)
Pt(t, v) == [time |-> t, value |-> v]

(* Pointer traces (mousePositions), timestamps within the segment *)
Traces ==
  [ none      |-> <<>>,
    one       |-> <<Pos(0, 960, 540, FALSE)>>,
    still     |-> <<Pos(0, 600, 400, FALSE), Pos(7500, 600, 400, FALSE)>>,
    slow      |-> <<Pos(0, 500, 400, FALSE), Pos(7500, 700, 500, FALSE)>>,
    fast      |-> <<Pos(0, 300, 300, FALSE), Pos(3000, 1500, 500, FALSE),
                    Pos(7500, 1500, 500, FALSE)>>,
    fastClick |-> <<Pos(0, 300, 300, TRUE), Pos(3000, 1500, 500, FALSE),
                    Pos(7500, 1500, 500, FALSE)>>,
    dwellFast |-> <<Pos(0, 600, 400, FALSE), Pos(6000, 600, 400, FALSE),
                    Pos(6600, 1100, 500, FALSE)>>,
    edge      |-> <<Pos(0, 50, 400, FALSE), Pos(7500, 50, 400, FALSE)>>,
    outside   |-> <<Pos(0, -100, 400, FALSE), Pos(7500, -100, 400, FALSE)>>,
    unsorted  |-> <<Pos(7500, 700, 400, FALSE), Pos(0, 500, 400, FALSE),
                    Pos(20000, 0, 0, TRUE)>>,
    sparse    |-> <<Pos(3000, 600, 400, FALSE), Pos(20000, 700, 500, FALSE),
                    Pos(21000, 800, 500, TRUE)>>,
    dup       |-> <<Pos(300, 300, 300, FALSE), Pos(1500, 600, 400, FALSE),
                    Pos(1500, 900, 500, FALSE), Pos(4500, 1200, 600, FALSE)>> ]

TraceNames == DOMAIN Traces

(* segment.zoomKeyframes *)
KeyframeSets ==
  [ none   |-> <<>>,
    single |-> <<Kf(3000, 30000, 5000, 5000)>>,
    pair   |-> <<Kf(1500, 15000, 2500, 2500), Kf(4500, 20000, 7500, 5000)>>,
    close  |-> <<Kf(3000, 18000, 7500, 7500), Kf(1000, 12000, 2500, 5000)>>,
    far    |-> <<Kf(500, 15000, 2500, 2500), Kf(6000, 20000, 7500, 5000)>>,
    late   |-> <<Kf(6000, 16000, 5000, 2500)>> ]

KeyframeNames == DOMAIN KeyframeSets

(* segment.zoomInfluencePoints, sorted by time, values in [0, 1] *)
InfluenceSets ==
  [ none  |-> <<>>,
    one   |-> <<Pt(3000, 500)>>,
    ramp  |-> <<Pt(1500, 1000), Pt(4500, 0)>>,
    three |-> <<Pt(1000, 200), Pt(3000, 800), Pt(5000, 500)>> ]

InfluenceNames == DOMAIN InfluenceSets

(* videoWidth x videoHeight in px *)
VideoSizes == { <<1920, 1080>>, <<1280, 720>> }

(* One segment with its pointer trace: every keyframe set with every trace  *)
(* at 1920x1080, the influence points with the still and the fast trace,    *)
(* the second size without keyframes.                                       *)
ZoomInputs ==
  { in \in [ trace : TraceNames, keyframes : KeyframeNames,
             influence : InfluenceNames, size : VideoSizes ] :
      /\ in.influence # "none" => in.trace \in {"still", "fast"}
      /\ in.size # <<1920, 1080>>
           => (in.keyframes = "none" /\ in.influence = "none") }

NoZoomInput ==
  [ trace |-> "none", keyframes |-> "none", influence |-> "none",
    size |-> <<1920, 1080>> ]

(* segment.trimStart and segment.trimEnd *)
simTrimStart == 0
simTrimEnd == SimTicks * PhysicsDt

videoWidth(in) == in.size[1] * PosUnit
videoHeight(in) == in.size[2] * PosUnit
zoomKeyframes(in) == KeyframeSets[in.keyframes]
zoomInfluencePoints(in) == InfluenceSets[in.influence]

-----------------------------------------------------------------------------
(* generateMotionPath: helpers *)

(* Array.prototype.sort((a, b) => a.key - b.key), which is stable: each    *)
(* element is inserted after the elements whose key is not greater          *)
RECURSIVE Insert(_, _)
Insert(s, e) ==
  IF s = <<>> THEN <<e>>
  ELSE IF e.key < Head(s).key THEN <<e>> \o s
       ELSE <<Head(s)>> \o Insert(Tail(s), e)

RECURSIVE Sort(_)
Sort(s) ==
  IF s = <<>> THEN <<>>
  ELSE Insert(Sort(SubSeq(s, 1, Len(s) - 1)), s[Len(s)])

(* The elements of s, each with its sort key *)
Keyed(s, Key(_)) == [i \in 1..Len(s) |-> [key |-> Key(s[i]), item |-> s[i]]]

Items(s) == [i \in 1..Len(s) |-> s[i].item]

(* The trace sorted but not cut to the segment's window *)
FilteredDataUnfiltered(in) ==
  Items(Sort(Keyed(Traces[in.trace], LAMBDA p : p.timestamp)))

(* mousePositions.filter(p => p.timestamp >= trimStart - 1.0 &&             *)
(*   p.timestamp <= trimEnd + 1.0).sort((a, b) => a.timestamp - b.timestamp) *)
FilteredData(in) ==
  Items(Sort(Keyed(SelectSeq(Traces[in.trace],
                             LAMBDA p : /\ p.timestamp >= simTrimStart - Second
                                        /\ p.timestamp <= simTrimEnd + Second),
                   LAMBDA p : p.timestamp)))

(* data.findIndex(p => p.timestamp >= t), 0 when there is none *)
FindIndex(s, Test(_)) ==
  IF \E i \in 1..Len(s) : Test(s[i])
  THEN CHOOSE i \in 1..Len(s) : Test(s[i]) /\ \A j \in 1..(i - 1) : ~Test(s[j])
  ELSE 0

(* A sampler that steps to the next sample instead of interpolating *)
sampleStep(data, t) ==
  IF t <= data[1].timestamp THEN [x |-> data[1].x, y |-> data[1].y]
  ELSE IF t >= data[Len(data)].timestamp
       THEN [x |-> data[Len(data)].x, y |-> data[Len(data)].y]
       ELSE LET idx == FindIndex(data, LAMBDA p : p.timestamp >= t)
            IN  [x |-> data[idx].x, y |-> data[idx].y]

(* sample(data, t): the pointer position at time t, in 1/100 px *)
sample(data, t) ==
  IF t <= data[1].timestamp THEN [x |-> data[1].x, y |-> data[1].y]
  ELSE IF t >= data[Len(data)].timestamp
       THEN [x |-> data[Len(data)].x, y |-> data[Len(data)].y]
       ELSE LET idx == FindIndex(data, LAMBDA p : p.timestamp >= t)
                p1 == data[idx - 1]
                p2 == data[idx]
                num == t - p1.timestamp
                den == p2.timestamp - p1.timestamp
            IN  [x |-> p1.x + Div((p2.x - p1.x) * num, den),
                 y |-> p1.y + Div((p2.y - p1.y) * num, den)]

(* getVelocity(data, t): dist / (window * 2) with window = 0.1 s, in 1/10   *)
(* px per second                                                            *)
getVelocity(data, t) ==
  LET window == Second \div 10
      p1 == sample(data, t - window)
      p2 == sample(data, t + window)
  IN  5 * Dist(p2.x - p1.x, p2.y - p1.y)

(* checkClick(data, t, 0.5) *)
checkClick(data, t) ==
  LET start == t - Second \div 4
      end == t + Second \div 4
  IN  \E i \in 1..Len(data) :
        data[i].timestamp >= start /\ data[i].timestamp <= end /\ data[i].isClicked

KfDist(kf, t) == Abs(kf.time - t)

(* const WINDOW = 1.5 *)
WINDOW == (3 * Second) \div 2

(* keyframes.map(kf => ({kf, dist})).filter(item => item.dist < WINDOW)     *)
(*   .sort((a, b) => a.dist - b.dist): key is dist, item is kf              *)
Nearby(keyframes, t) ==
  Sort(SelectSeq(Keyed(keyframes, LAMBDA kf : KfDist(kf, t)),
                 LAMBDA item : item.key < WINDOW))

(* const weight = (1 + Math.cos(ratio * Math.PI)) / 2 *)
KeyframeWeight(dist) == Div(WeightUnit + CosPi(dist, WINDOW), 2)

(* The influence of the farthest keyframe of the window instead. *)
getKeyframeInfluenceFarthest(keyframes, t) ==
  LET nearby == Nearby(keyframes, t)
  IN  IF nearby = <<>>
      THEN [x |-> 5000, y |-> 5000, zoom |-> ZoomUnit, weight |-> 0]
      ELSE LET best == nearby[Len(nearby)]
           IN  [x |-> best.item.positionX, y |-> best.item.positionY,
                zoom |-> best.item.zoomFactor,
                weight |-> KeyframeWeight(best.key)]

(* getKeyframeInfluence(keyframes, t) *)
getKeyframeInfluence(keyframes, t) ==
  LET nearby == Nearby(keyframes, t)
  IN  IF nearby = <<>>
      THEN [x |-> 5000, y |-> 5000, zoom |-> ZoomUnit, weight |-> 0]
      ELSE LET best == nearby[1]
           IN  [x |-> best.item.positionX, y |-> best.item.positionY,
                zoom |-> best.item.zoomFactor,
                weight |-> KeyframeWeight(best.key)]

-----------------------------------------------------------------------------
(* generateMotionPath: one iteration of the simulation loop *)

(* moveDist < 2.0 *)
Still(dx, dy) ==
  /\ Abs(dx) < 2 * PosUnit
  /\ Abs(dy) < 2 * PosUnit
  /\ dx * dx + dy * dy < 4 * PosUnit * PosUnit

(* Rules 1 to 3: velocity penalty, click focus, deep read.  velocity is in  *)
(* 1/10 px per second.                                                      *)
RuleZoom(velocity, isClicked, hoverTime) ==
  LET speedFactor ==
        Min(WeightUnit,
            Div(velocity * WeightUnit, 10 * MAX_VELOCITY_ZOOM_PENALTY))
      byVelocity == Blend(BASE_ZOOM, MIN_ZOOM, speedFactor)
      byClick == IF isClicked THEN Max(byVelocity, 17000) ELSE byVelocity
  IN  IF hoverTime > 2 * Second THEN MAX_ZOOM ELSE byClick

(* Rule 4: edge penalty *)
EdgeZoom(targetZoom, futureMouse, in) ==
  LET edgeDistX == Min(futureMouse.x, videoWidth(in) - futureMouse.x)
      edgeDistY == Min(futureMouse.y, videoHeight(in) - futureMouse.y)
      edgeMargin == 200 * PosUnit
  IN  IF edgeDistX < edgeMargin \/ edgeDistY < edgeMargin
      THEN Min(targetZoom,
               MIN_ZOOM + Div((targetZoom - MIN_ZOOM) * Min(edgeDistX, edgeDistY),
                              edgeMargin))
      ELSE targetZoom

(* Override: manual keyframes.  auto is the target of rules 1 to 4. *)
MagnetTarget(auto, in, t) ==
  LET kfInfluence == getKeyframeInfluence(zoomKeyframes(in), t)
      w == kfInfluence.weight
      kfX == Div(kfInfluence.x * videoWidth(in), ZoomUnit)
      kfY == Div(kfInfluence.y * videoHeight(in), ZoomUnit)
  IN  IF Len(zoomKeyframes(in)) > 0 /\ w > 0
      THEN [x |-> Blend(auto.x, kfX, w), y |-> Blend(auto.y, kfY, w),
            zoom |-> Blend(auto.zoom, kfInfluence.zoom, w), weight |-> w]
      ELSE [x |-> auto.x, y |-> auto.y, zoom |-> auto.zoom, weight |-> 0]

(* state.v += a * dt with a = (-TENSION * (p - target) - FRICTION * v) / mass *)
SpringVelocity(p, v, tgt, mass) ==
  v + Div(VelUnit * (-TENSION * (p - tgt)) - FRICTION * v, mass * FramesPerSecond)

(* state.p += state.v * dt *)
SpringPosition(p, v) == p + Div(v, VelUnit * FramesPerSecond)

(* if (p - half < 0) { p = half; v = 0 } if (p + half > size) { p = size -  *)
(* half; v = 0 }                                                            *)
ClampAxis(p, v, half, size) ==
  LET p1 == IF p - half < 0 THEN half ELSE p
      v1 == IF p - half < 0 THEN 0 ELSE v
  IN  IF p1 + half > size THEN [p |-> size - half, v |-> 0]
      ELSE [p |-> p1, v |-> v1]

(* Math.max(1.0, Math.min(5.0, state.zoom)) *)
ClampZoom(z) == Max(ZoomUnit, Min(5 * ZoomUnit, z))

(* A dwell accumulator that decays without the floor at 0 *)
HoverTimeNoFloor(inter, currentMouse) ==
  IF Still(currentMouse.x - inter.lastPos.x, currentMouse.y - inter.lastPos.y)
  THEN inter.hoverTime + PhysicsDt
  ELSE inter.hoverTime - 2 * PhysicsDt

(* interaction.hoverTime after the update of lines 89-94 *)
HoverTime(inter, currentMouse) ==
  IF Still(currentMouse.x - inter.lastPos.x, currentMouse.y - inter.lastPos.y)
  THEN inter.hoverTime + PhysicsDt
  ELSE Max(0, inter.hoverTime - 2 * PhysicsDt)

(* E, F: the hard constraints on the moved camera and the recorded entry *)
Constrain(in, t, currentMouse, rules, tgt, vx, vy, vz, x, y, zoom) ==
  LET hw == Div(Div(videoWidth(in) * ZoomUnit, zoom), 2)
      hh == Div(Div(videoHeight(in) * ZoomUnit, zoom), 2)
      cx == ClampAxis(x, vx, hw, videoWidth(in))
      cy == ClampAxis(y, vy, hh, videoHeight(in))
      cz == ClampZoom(zoom)
  IN  [ state |-> [x |-> cx.p, y |-> cy.p, zoom |-> cz,
                   vx |-> cx.v, vy |-> cy.v, vz |-> vz],
        interaction |-> [hoverTime |-> rules.hoverTime, lastPos |-> currentMouse],
        target |-> [t |-> t, velocity |-> rules.velocity,
                    isClicked |-> rules.isClicked,
                    hoverTime |-> rules.hoverTime, ruleZoom |-> rules.ruleZoom,
                    auto |-> rules.auto, x |-> tgt.x, y |-> tgt.y,
                    zoom |-> tgt.zoom, weight |-> tgt.weight,
                    preZoom |-> zoom],
        entry |-> [time |-> ToFixed3(t), x |-> ToFixed1(cx.p),
                   y |-> ToFixed1(cy.p), zoom |-> ToFixedZoom(cz)] ]

(* D: state.x += state.vx * dt, and the same for y and zoom *)
Integrate(in, t, st, currentMouse, rules, tgt, vx, vy, vz) ==
  Constrain(in, t, currentMouse, rules, tgt, vx, vy, vz,
            SpringPosition(st.x, vx), SpringPosition(st.y, vy),
            SpringPosition(st.zoom, vz))

(* D: state.vx += ax * dt, and the same for y and zoom *)
Physics(in, t, st, currentMouse, rules, tgt) ==
  Integrate(in, t, st, currentMouse, rules, tgt,
            SpringVelocity(st.x, st.vx, tgt.x, MASS),
            SpringVelocity(st.y, st.vy, tgt.y, MASS),
            SpringVelocity(st.zoom, st.vz, tgt.zoom, MASS * 3))

(* B, C: the target of rules 1 to 4, then the manual keyframes *)
Target(in, t, st, currentMouse, futureMouse, velocity, isClicked, hoverTime, ruleZoom) ==
  Physics(in, t, st, currentMouse,
          [ velocity |-> velocity, isClicked |-> isClicked,
            hoverTime |-> hoverTime, ruleZoom |-> ruleZoom,
            auto |-> [x |-> futureMouse.x, y |-> futureMouse.y,
                      zoom |-> EdgeZoom(ruleZoom, futureMouse, in)] ],
          MagnetTarget([x |-> futureMouse.x, y |-> futureMouse.y,
                        zoom |-> EdgeZoom(ruleZoom, futureMouse, in)], in, t))

(* A: the interaction state and the zoom of rules 1 to 3 *)
Interact(in, t, st, inter, currentMouse, futureMouse, velocity, isClicked) ==
  Target(in, t, st, currentMouse, futureMouse, velocity, isClicked,
         HoverTime(inter, currentMouse),
         RuleZoom(velocity, isClicked, HoverTime(inter, currentMouse)))

(* One iteration at time t from physics state st and interaction state     *)
(* inter: the new states, the targets and the recorded path entry.          *)
SimStep(in, data, t, st, inter) ==
  Interact(in, t, st, inter, sample(data, t), sample(data, t + LOOK_AHEAD),
           getVelocity(data, t), checkClick(data, t))

-----------------------------------------------------------------------------
(* VideoRenderer.calculateCurrentZoomStateInternal *)

DEFAULT_STATE ==
  [ time |-> 0, duration |-> 0, zoomFactor |-> ZoomUnit,
    positionX |-> ZoomUnit \div 2, positionY |-> ZoomUnit \div 2,
    easingType |-> "linear" ]

(* const TRANSITION_DURATION = 1.0 *)
TRANSITION_DURATION == Second

(* 1 - Math.pow(1 - x, 3), x in weight units *)
easeOutCubic(x) ==
  WeightUnit - Div((WeightUnit - x) * (WeightUnit - x) * (WeightUnit - x),
                   WeightUnit * WeightUnit)

(* a + (b - a) * num / den *)
Lerp(a, b, num, den) == a + Div((b - a) * num, den)

(* The camera of the dense path at ct: x and y in 1/10 px *)
PathCamera(smoothMotionPath, ct) ==
  LET idx == FindIndex(smoothMotionPath, LAMBDA p : p.time >= ct)
  IN  IF idx = 0
      THEN LET last == smoothMotionPath[Len(smoothMotionPath)]
           IN  [x |-> last.x, y |-> last.y, zoom |-> last.zoom]
      ELSE IF idx = 1
           THEN LET first == smoothMotionPath[1]
                IN  [x |-> first.x, y |-> first.y, zoom |-> first.zoom]
           ELSE LET p1 == smoothMotionPath[idx - 1]
                    p2 == smoothMotionPath[idx]
                    num == ct - p1.time
                    den == p2.time - p1.time
                IN  [x |-> Lerp(p1.x, p2.x, num, den),
                     y |-> Lerp(p1.y, p2.y, num, den),
                     zoom |-> Lerp(p1.zoom, p2.zoom, num, den)]

(* let influence: the value of the influence curve at ct *)
Influence(points, ct) ==
  LET iIdx == FindIndex(points, LAMBDA p : p.time >= ct)
  IN  IF iIdx = 0 THEN points[Len(points)].value
      ELSE IF iIdx = 1 THEN points[1].value
           ELSE LET ip1 == points[iIdx - 1]
                    ip2 == points[iIdx]
                    cosT == Div(WeightUnit
                                  - CosPi(ct - ip1.time,
                                          ip2.time - ip1.time), 2)
                IN  Blend(ip1.value, ip2.value, cosT)

(* The scaling that leaves the position where the path has it. *)
ScaleByInfluenceZoomOnly(cam, influence, viewW, viewH) ==
  [ zoom |-> ZoomUnit + Div((cam.zoom - ZoomUnit) * influence, WeightUnit),
    x |-> cam.x,
    y |-> cam.y ]

(* cam.zoom = 1.0 + (cam.zoom - 1.0) * influence; cam.x = (viewW / 2) +     *)
(* (cam.x - (viewW / 2)) * influence; the same for cam.y                    *)
ScaleByInfluence(cam, influence, viewW, viewH) ==
  [ zoom |-> ZoomUnit + Div((cam.zoom - ZoomUnit) * influence, WeightUnit),
    x |-> Div(viewW, 2) + Div((cam.x - Div(viewW, 2)) * influence, WeightUnit),
    y |-> Div(viewH, 2) + Div((cam.y - Div(viewH, 2)) * influence, WeightUnit) ]

(* The automatic camera: the dense path scaled by the influence curve *)
AutoCamera(smoothMotionPath, points, ct, viewW, viewH) ==
  LET cam == PathCamera(smoothMotionPath, ct)
  IN  IF Len(points) > 0
      THEN ScaleByInfluence(cam, Influence(points, ct), viewW, viewH)
      ELSE cam

(* The dense-path branch: lines 446-516.  viewW and viewH are in 1/10 px. *)
DenseState(smoothMotionPath, points, keyframes, ct, viewW, viewH) ==
  LET cam == AutoCamera(smoothMotionPath, points, ct, viewW, viewH)
      zoomFactor == cam.zoom
      positionX == Div(cam.x * ZoomUnit, viewW)
      positionY == Div(cam.y * ZoomUnit, viewH)
      nearby == Nearby(keyframes, ct)
      weight == KeyframeWeight(nearby[1].key)
      kf == nearby[1].item
  IN  IF Len(keyframes) > 0 /\ nearby # <<>>
      THEN [ time |-> ct, duration |-> 0,
             zoomFactor |-> Blend(zoomFactor, kf.zoomFactor, weight),
             positionX |-> Blend(positionX, kf.positionX, weight),
             positionY |-> Blend(positionY, kf.positionY, weight),
             easingType |-> "linear" ]
      ELSE [ time |-> ct, duration |-> 0, zoomFactor |-> zoomFactor,
             positionX |-> positionX, positionY |-> positionY,
             easingType |-> "linear" ]

(* The eased state between from and to at progress = num / den *)
Eased(from, to, num, den, ct, duration) ==
  LET ratio == Div(WeightUnit * num, den)
      easedProgress == easeOutCubic(Min(WeightUnit, Max(0, ratio)))
  IN  [ time |-> ct, duration |-> duration,
        zoomFactor |-> Lerp(from.zoomFactor, to.zoomFactor, easedProgress, WeightUnit),
        positionX |-> Lerp(from.positionX, to.positionX, easedProgress, WeightUnit),
        positionY |-> Lerp(from.positionY, to.positionY, easedProgress, WeightUnit),
        easingType |-> "easeOut" ]

(* The discrete-keyframe branch without the approach to the next keyframe. *)
DiscreteStateHoldOnly(keyframes, ct) ==
  LET sortedKeyframes == Items(Sort(Keyed(keyframes, LAMBDA k : k.time)))
      n == Len(sortedKeyframes)
      nextIdx == FindIndex(sortedKeyframes, LAMBDA k : k.time > ct)
      prevIdx == IF nextIdx = 0 THEN n ELSE nextIdx - 1
      nextKeyframe == sortedKeyframes[nextIdx]
      prevKeyframe == sortedKeyframes[prevIdx]
  IN  IF n = 0 THEN DEFAULT_STATE
      ELSE IF prevIdx # 0 /\ nextIdx # 0
                /\ nextKeyframe.time - prevKeyframe.time <= TRANSITION_DURATION
           THEN Eased(prevKeyframe, nextKeyframe,
                      ct - prevKeyframe.time,
                      nextKeyframe.time - prevKeyframe.time, ct,
                      nextKeyframe.time - prevKeyframe.time)
           ELSE IF prevIdx # 0 THEN prevKeyframe ELSE DEFAULT_STATE

(* The discrete-keyframe branch: lines 518-556.  In the sorted array the    *)
(* keyframe found by find(k => k.time > ct) is the first one       *)
(* after ct, and the one found from the reversed copy with         *)
(* k.time <= ct is the element before it.                          *)
DiscreteState(keyframes, ct) ==
  LET sortedKeyframes == Items(Sort(Keyed(keyframes, LAMBDA k : k.time)))
      n == Len(sortedKeyframes)
      nextIdx == FindIndex(sortedKeyframes, LAMBDA k : k.time > ct)
      prevIdx == IF nextIdx = 0 THEN n ELSE nextIdx - 1
      nextKeyframe == sortedKeyframes[nextIdx]
      prevKeyframe == sortedKeyframes[prevIdx]
      timeToNext == nextKeyframe.time - ct
      startState == IF prevIdx # 0 THEN prevKeyframe ELSE DEFAULT_STATE
  IN  IF n = 0 THEN DEFAULT_STATE
      ELSE IF prevIdx # 0 /\ nextIdx # 0
                /\ nextKeyframe.time - prevKeyframe.time <= TRANSITION_DURATION
           THEN Eased(prevKeyframe, nextKeyframe,
                      ct - prevKeyframe.time,
                      nextKeyframe.time - prevKeyframe.time, ct,
                      nextKeyframe.time - prevKeyframe.time)
           ELSE IF nextIdx # 0 /\ timeToNext <= TRANSITION_DURATION
                THEN Eased(startState, nextKeyframe,
                           TRANSITION_DURATION - timeToNext,
                           TRANSITION_DURATION, ct,
                           TRANSITION_DURATION)
                ELSE IF prevIdx # 0 THEN prevKeyframe ELSE DEFAULT_STATE

(* A compositor that keeps the camera of the previous frame when the        *)
(* playback goes back in time.                                              *)
calculateCurrentZoomStateSticky(ct, in, smoothMotionPath) ==
  IF lastCalculatedState.time > ct
  THEN lastCalculatedState
  ELSE IF Len(smoothMotionPath) > 0
       THEN DenseState(smoothMotionPath, zoomInfluencePoints(in), zoomKeyframes(in), ct,
                       videoWidth(in) \div 10, videoHeight(in) \div 10)
       ELSE DiscreteState(zoomKeyframes(in), ct)

(* calculateCurrentZoomStateInternal(currentTime, segment, viewW, viewH),   *)
(* ct being currentTime                                                     *)
calculateCurrentZoomState(ct, in, smoothMotionPath) ==
  IF Len(smoothMotionPath) > 0
  THEN DenseState(smoothMotionPath, zoomInfluencePoints(in), zoomKeyframes(in), ct,
                  videoWidth(in) \div 10, videoHeight(in) \div 10)
  ELSE DiscreteState(zoomKeyframes(in), ct)

-----------------------------------------------------------------------------
(* The generator run tick by tick, then the playback of the segment *)

(* Time between two rendered frames of the playback: half a tick *)
PlayStep == PhysicsDt \div 2

NoState == [x |-> 0, y |-> 0, zoom |-> ZoomUnit, vx |-> 0, vy |-> 0, vz |-> 0]
NoInteraction == [hoverTime |-> 0, lastPos |-> [x |-> 0, y |-> 0]]
NoTarget ==
  [ t |-> -1, velocity |-> 0, isClicked |-> FALSE, hoverTime |-> 0,
    ruleZoom |-> BASE_ZOOM, auto |-> [x |-> 0, y |-> 0, zoom |-> BASE_ZOOM],
    x |-> 0, y |-> 0, zoom |-> BASE_ZOOM, weight |-> 0, preZoom |-> ZoomUnit ]

(* No generation and no playback under way *)
ZoomIdle ==
  /\ zin = NoZoomInput
  /\ zpc = "off"
  /\ simT = 0
  /\ state = NoState
  /\ interaction = NoInteraction
  /\ target = NoTarget
  /\ path = <<>>
  /\ playTime = -PlayStep
  /\ lastCalculatedState = DEFAULT_STATE

-----------------------------------------------------------------------------
ExpInit ==
  /\ variant \in Variants
  /\ isExporting = FALSE
  /\ shouldStop = FALSE
  /\ pc = "idle"
  /\ opts = NoOptions
  /\ currentTime = 0
  /\ videoAttached = FALSE
  /\ seekPending = FALSE
  /\ frameTime = 0
  /\ canvasImg = -1
  /\ lastRender = <<0, 0>>
  /\ inflight = {}
  /\ sinkFrames = <<>>
  /\ serverUp = FALSE
  /\ finishCalls = 0
  /\ finishAcked = FALSE
  /\ progress = <<>>
  /\ result = "none"
  /\ attempts = 0
  /\ busyError = FALSE
  /\ cancelPhases = {}
  /\ cancelAt = -1
  /\ noBlob = {}
  /\ sinkError = "none"
  /\ videoDataArray = "null"
  /\ audioDataArray = "null"
  /\ startCalls = <<>>
  /\ extractFailed = {}

(* No dimension negotiation under way *)
DimIdle ==
  /\ dimIn = NoDimInput
  /\ dimOut = {}

(* VideoRenderer field initialisers: isDrawing = false, lastDrawTime = 0 *)
DrawIdle ==
  /\ isDrawing = FALSE
  /\ drawPc = "idle"
  /\ drawIn = NoDrawInput
  /\ lastDrawTime = 0
  /\ drawn = 0
  /\ ticks = 0
  /\ lastCall = "none"

(* No cursor resolved yet *)
NoCursorInput == [time |-> 0, trace |-> "none"]

(* No frame drawn yet *)
NoSquishInput ==
  [time |-> 0, isClicked |-> FALSE, inside |-> FALSE, elapsed |-> 0, odd |-> FALSE]

(* No frame rendered yet *)
RenIdle ==
  /\ isExportMode = FALSE
  /\ scrubs = 0
  /\ isDraggingText = FALSE
  /\ draggedTextId = "null"
  /\ dragOffset = [x |-> 0, y |-> 0]
  /\ textStyle = [x |-> 50, y |-> 50]
  /\ highlighted = FALSE
  /\ currentSquishScale = ZoomUnit
  /\ lastHoldTime = -1
  /\ animating = FALSE
  /\ squishIn = NoSquishInput
  /\ canvasSize = [width |-> Num(0), height |-> Num(0)]
  /\ frameSizes = {}
  /\ smoothedPositions = <<>>
  /\ cursorIn = NoCursorInput
  /\ cursorOut = {}

Init ==
  /\ ExpInit
  /\ DimIdle
  /\ DrawIdle
  /\ ZoomIdle
  /\ RenIdle

-----------------------------------------------------------------------------
(* Fragments shared by the actions *)

mediaVars == <<seekPending, frameTime, canvasImg, lastRender>>
sinkVars == <<inflight, sinkFrames, serverUp, finishCalls, finishAcked>>
callVars == <<attempts, busyError>>
cancelLog == <<cancelPhases, cancelAt>>
logVars == <<noBlob, sinkError>>
dataVars == <<videoDataArray, audioDataArray, startCalls, extractFailed>>

(* exportConfig of variant 1 with its videoData and audioData; the configs  *)
(* of variants 2 and 3 have neither field.                                  *)
ExportConfig(v, a) ==
  IF variant = 1 THEN [videoData |-> v, audioData |-> a]
  ELSE [videoData |-> "absent", audioData |-> "absent"]

(* await invoke('start_export_server', exportConfig): the call is made and  *)
(* exportAndDownload waits for its answer.                                  *)
InvokeStart(v, a) ==
  /\ pc' = "invoke"
  /\ startCalls' = Append(startCalls, ExportConfig(v, a))

(* The call settles with outcome r and nothing else of it runs: result is   *)
(* what the caller's promise sees.                                         *)
Settled(r) ==
  /\ pc' = "idle"
  /\ result' = r
  /\ cancelPhases' = {}
  /\ cancelAt' = -1

(* finally { this.isExporting = false; document.body.removeChild(exportVideo) } *)
Finally ==
  /\ isExporting' = FALSE
  /\ videoAttached' = FALSE

(* catch (e) { console.error("Export loop failed:", e) } finally {...}: the  *)
(* loop's error is logged, not rethrown, so the call resolves.              *)
CatchLoopError ==
  /\ Finally
  /\ Settled("resolved")

(* The loop entered without waiting for 'seeked'. *)
LoopHeadNoSeekWait(ct) ==
  /\ currentTime' = ct
  /\ IF ct < trimEnd(opts) /\ ~shouldStop
     THEN /\ seekPending' = TRUE
          /\ pc' = "render"
          /\ finishCalls' = finishCalls
     ELSE /\ seekPending' = seekPending
          /\ pc' = "finish"
          /\ finishCalls' = finishCalls + 1

(* The loop condition without !this.shouldStop. *)
LoopHeadNoStopCheck(ct) ==
  /\ currentTime' = ct
  /\ IF ct < trimEnd(opts)
     THEN /\ seekPending' = TRUE
          /\ pc' = "seek"
          /\ finishCalls' = finishCalls
     ELSE /\ seekPending' = seekPending
          /\ pc' = "finish"
          /\ finishCalls' = finishCalls + 1

(* while (currentTime < endTime && !this.shouldStop) { exportVideo.currentTime *)
(* = currentTime; await seeked ... } await fetch(`${serverUrl}/finish`),       *)
(* evaluated with the loop variable at ct.                                     *)
LoopHead(ct) ==
  /\ currentTime' = ct
  /\ IF ct < trimEnd(opts) /\ ~shouldStop
     THEN /\ seekPending' = TRUE
          /\ pc' = "seek"
          /\ finishCalls' = finishCalls
     ELSE /\ seekPending' = seekPending
          /\ pc' = "finish"
          /\ finishCalls' = finishCalls + 1

(* currentTime += step; options.onProgress?.(Math.min(progress, 99)); then   *)
(* the loop condition again.                                                *)
Advance ==
  /\ progress' = Append(progress, ProgressValue(opts, currentTime + step(opts)))
  /\ LoopHead(currentTime + step(opts))

-----------------------------------------------------------------------------
(* exportAndDownload: entry *)

(* The busy check placed after the flags are reset. *)
AlreadyInProgressAfterReset ==
  /\ isExporting
  /\ attempts' = 1 - attempts
  /\ busyError' = TRUE
  /\ shouldStop' = FALSE
  /\ UNCHANGED <<variant, isExporting, pc, opts, currentTime, videoAttached,
                 mediaVars, sinkVars, progress, result, cancelLog, logVars,
                 dataVars>>

(* if (this.isExporting) throw new Error('Export already in progress') *)
AlreadyInProgress ==
  /\ isExporting
  /\ attempts' = 1 - attempts
  /\ busyError' = TRUE
  /\ UNCHANGED <<variant, isExporting, shouldStop, pc, opts, currentTime,
                 videoAttached, mediaVars, sinkVars, progress, result,
                 cancelLog, logVars, dataVars>>

(* The entry that leaves shouldStop as the last export left it. *)
EntryFlagsKeepStop ==
  /\ isExporting' = TRUE
  /\ shouldStop' = shouldStop

(* this.isExporting = true; this.shouldStop = false; *)
EntryFlags ==
  /\ isExporting' = TRUE
  /\ shouldStop' = FALSE

(* The accepted call, up to its first await. *)
StartExport(o) ==
  /\ ~isExporting
  /\ attempts' = 1 - attempts
  /\ busyError' = FALSE
  /\ EntryFlags
  /\ opts' = o
  /\ currentTime' = 0
  /\ seekPending' = FALSE
  /\ frameTime' = 0
  /\ canvasImg' = -1
  /\ lastRender' = <<0, 0>>
  /\ inflight' = {}
  /\ sinkFrames' = <<>>
  /\ serverUp' = FALSE
  /\ finishCalls' = 0
  /\ finishAcked' = FALSE
  /\ progress' = <<>>
  /\ noBlob' = {}
  /\ sinkError' = "none"
  /\ videoDataArray' = "null"
  /\ audioDataArray' = "null"
  /\ extractFailed' = {}
  /\ CASE variant = 3 ->
            IF o.missing
            THEN \* throw new Error('Missing required elements')
                 /\ pc' = "idle"
                 /\ result' = "rejected"
                 /\ videoAttached' = FALSE
                 /\ cancelPhases' = {}
                 /\ startCalls' = <<>>
            ELSE \* document.body.appendChild(exportVideo); await load
                 /\ pc' = "load"
                 /\ result' = "pending"
                 /\ videoAttached' = TRUE
                 /\ cancelPhases' = cancelPhases
                 /\ startCalls' = <<>>
       [] variant = 1 ->
            /\ IF o.videoBlob
               THEN pc' = "fetchVideo" /\ startCalls' = <<>>
               ELSE IF o.audioBlob
                    THEN pc' = "fetchAudio" /\ startCalls' = <<>>
                    ELSE /\ pc' = "invoke"
                         /\ startCalls' = <<ExportConfig("null", "null")>>
            /\ result' = "pending"
            /\ videoAttached' = FALSE
            /\ cancelPhases' = cancelPhases
       [] OTHER ->
            /\ pc' = "invoke"
            /\ startCalls' = <<ExportConfig("null", "null")>>
            /\ result' = "pending"
            /\ videoAttached' = FALSE
            /\ cancelPhases' = cancelPhases
  /\ UNCHANGED <<variant, cancelAt>>

(* cancel(): this.shouldStop = true in variant 3, an empty body otherwise *)
cancel ==
  /\ shouldStop' = (IF variant = 3 THEN TRUE ELSE shouldStop)
  /\ cancelPhases' = cancelPhases \cup {Phase}
  /\ cancelAt' = IF Phase = "Streaming" /\ cancelAt = -1 THEN currentTime
                 ELSE cancelAt
  /\ UNCHANGED <<variant, isExporting, pc, opts, currentTime, videoAttached,
                 mediaVars, sinkVars, progress, result, callVars, dataVars, logVars>>

-----------------------------------------------------------------------------
(* Variant 1: blob extraction before the native export *)

(* The start call made although the video bytes could not be extracted. *)
VideoDataFailedGoesOn ==
  /\ pc = "fetchVideo"
  /\ extractFailed' = extractFailed \cup {"video"}
  /\ IF opts.audioBlob
     THEN pc' = "fetchAudio" /\ startCalls' = startCalls
     ELSE InvokeStart("null", audioDataArray)
  /\ UNCHANGED <<variant, isExporting, shouldStop, opts, currentTime,
                 videoAttached, mediaVars, sinkVars, progress, result,
                 callVars, cancelLog, logVars, videoDataArray,
                 audioDataArray>>

(* videoDataArray = Array.from(new Uint8Array(buffer)): go on to the audio   *)
(* or to the invoke                                                          *)
VideoDataFetched ==
  /\ pc = "fetchVideo"
  /\ videoDataArray' = "bytes"
  /\ IF opts.audioBlob
     THEN pc' = "fetchAudio" /\ startCalls' = startCalls
     ELSE InvokeStart("bytes", audioDataArray)
  /\ UNCHANGED <<variant, isExporting, shouldStop, opts, currentTime,
                 videoAttached, mediaVars, sinkVars, progress, result,
                 callVars, cancelLog, logVars, audioDataArray, extractFailed>>

(* catch (e) { console.error("Failed to extract video data", e); throw new   *)
(* Error("Failed to prepare video for export") }: thrown before the          *)
(* try/finally that resets isExporting.                                      *)
VideoDataFailed ==
  /\ pc = "fetchVideo"
  /\ extractFailed' = extractFailed \cup {"video"}
  /\ Settled("rejected")
  /\ UNCHANGED <<variant, isExporting, shouldStop, opts, currentTime,
                 videoAttached, mediaVars, sinkVars, progress, callVars,
                 logVars, videoDataArray, audioDataArray, startCalls>>

(* audioDataArray = Array.from(new Uint8Array(buffer)); then the invoke *)
AudioDataFetched ==
  /\ pc = "fetchAudio"
  /\ audioDataArray' = "bytes"
  /\ InvokeStart(videoDataArray, "bytes")
  /\ UNCHANGED <<variant, isExporting, shouldStop, opts, currentTime,
                 videoAttached, mediaVars, sinkVars, progress, result,
                 callVars, cancelLog, logVars, videoDataArray, extractFailed>>

(* catch (e) { console.error("Failed to extract audio data", e) }: audio is  *)
(* optional, nothing is thrown, and the invoke follows with audioData null.  *)
AudioDataFailed ==
  /\ pc = "fetchAudio"
  /\ extractFailed' = extractFailed \cup {"audio"}
  /\ InvokeStart(videoDataArray, audioDataArray)
  /\ UNCHANGED <<variant, isExporting, shouldStop, opts, currentTime,
                 videoAttached, mediaVars, sinkVars, progress, result,
                 callVars, cancelLog, logVars, videoDataArray,
                 audioDataArray>>

-----------------------------------------------------------------------------
(* Variant 3: the off-screen video loads *)

(* exportVideo.onloadeddata: resolve(); then invoke('start_export_server') *)
LoadedData ==
  /\ pc = "load"
  /\ InvokeStart("null", "null")
  /\ UNCHANGED <<variant, isExporting, shouldStop, opts, currentTime,
                 videoAttached, mediaVars, sinkVars, progress, result,
                 callVars, cancelLog, logVars, videoDataArray,
                 audioDataArray, extractFailed>>

(* exportVideo.onerror: reject(e), outside any try block *)
LoadError ==
  /\ pc = "load"
  /\ Settled("rejected")
  /\ UNCHANGED <<variant, isExporting, shouldStop, opts, currentTime,
                 videoAttached, mediaVars, sinkVars, progress, callVars, dataVars,
                 logVars>>

-----------------------------------------------------------------------------
(* invoke('start_export_server', ...) settles *)

InvokeResolved ==
  /\ pc = "invoke"
  /\ serverUp' = TRUE
  /\ IF variant = 3
     THEN \* port = res.port; resize the canvases; enter the loop
          /\ LoopHead(opts.trimStart)
          /\ UNCHANGED <<isExporting, videoAttached, result, cancelLog>>
     ELSE \* console.log('Export Success:', res); finally
          /\ isExporting' = FALSE
          /\ Settled("resolved")
          /\ UNCHANGED <<currentTime, seekPending, finishCalls, videoAttached>>
  /\ UNCHANGED <<variant, shouldStop, opts, frameTime, canvasImg, lastRender,
                 inflight, sinkFrames, finishAcked, progress, callVars, dataVars,
                 logVars>>

(* catch (e) { ...; throw e }: every variant resets isExporting and rethrows *)
InvokeRejected ==
  /\ pc = "invoke"
  /\ Finally
  /\ Settled("rejected")
  /\ sinkError' = "start"
  /\ UNCHANGED <<variant, shouldStop, opts, currentTime, mediaVars, sinkVars,
                 progress, callVars, dataVars, noBlob>>

-----------------------------------------------------------------------------
(* Variant 3: one loop iteration *)

(* The media element finishes the seek and fires 'seeked'; the handler h     *)
(* resolves the promise the loop awaits.                                    *)
Seeked ==
  /\ seekPending
  /\ seekPending' = FALSE
  /\ frameTime' = currentTime
  /\ pc' = IF pc = "seek" THEN "render" ELSE pc
  /\ UNCHANGED <<variant, isExporting, shouldStop, opts, currentTime,
                 videoAttached, canvasImg, lastRender, sinkVars, progress,
                 result, callVars, dataVars, cancelLog, logVars>>

(* await videoRenderer.drawFrame(renderContext, { exportMode: true }), then   *)
(* canvas.toBlob is requested.  drawFrame draws the frame the video shows,    *)
(* returns early without drawing, or throws (its try has no catch).           *)
DrawFrame(outcome) ==
  /\ pc = "render"
  /\ CASE outcome = "drawn" ->
            /\ canvasImg' = frameTime
            /\ lastRender' = <<currentTime, frameTime>>
            /\ pc' = "encode"
            /\ UNCHANGED <<isExporting, videoAttached, result, cancelLog>>
       [] outcome = "skipped" ->
            /\ pc' = "encode"
            /\ UNCHANGED <<canvasImg, lastRender, isExporting, videoAttached,
                           result, cancelLog>>
       [] OTHER ->
            /\ CatchLoopError
            /\ UNCHANGED <<canvasImg, lastRender>>
  /\ UNCHANGED <<variant, shouldStop, opts, currentTime, seekPending,
                 frameTime, sinkVars, progress, callVars, dataVars, logVars>>

(* The POST sent without awaiting its answer. *)
BlobReadyNoAwait(hasBlob) ==
  /\ pc = "encode"
  /\ inflight' = IF hasBlob
                 THEN inflight \cup {[t |-> currentTime, img |-> canvasImg]}
                 ELSE inflight
  /\ noBlob' = IF hasBlob THEN noBlob ELSE noBlob \cup {currentTime}
  /\ Advance
  /\ UNCHANGED <<variant, isExporting, shouldStop, opts, videoAttached,
                 frameTime, canvasImg, lastRender, sinkFrames, serverUp,
                 finishAcked, result, callVars, dataVars, cancelLog, sinkError>>

(* toBlob's callback: if (blob) { await fetch(serverUrl, POST blob) }, and    *)
(* with a null blob straight on to currentTime += step.                       *)
BlobReady(hasBlob) ==
  /\ pc = "encode"
  /\ IF hasBlob
     THEN /\ inflight' = inflight \cup {[t |-> currentTime, img |-> canvasImg]}
          /\ pc' = "submit"
          /\ UNCHANGED <<currentTime, seekPending, finishCalls, progress,
                         noBlob>>
     ELSE /\ Advance
          /\ noBlob' = noBlob \cup {currentTime}
          /\ UNCHANGED inflight
  /\ UNCHANGED <<variant, isExporting, shouldStop, opts, videoAttached,
                 frameTime, canvasImg, lastRender, sinkFrames, serverUp,
                 finishAcked, result, callVars, dataVars, cancelLog, sinkError>>

(* The sink receives one posted frame. *)
SinkReceive ==
  /\ \E f \in inflight :
       /\ inflight' = inflight \ {f}
       /\ sinkFrames' = Append(sinkFrames, f)
  /\ UNCHANGED <<variant, isExporting, shouldStop, pc, opts, currentTime,
                 videoAttached, mediaVars, serverUp, finishCalls, finishAcked,
                 progress, result, callVars, dataVars, cancelLog, logVars>>

(* The frame POST resolved: the sink has the frame and answered. *)
SubmitResolved ==
  /\ pc = "submit"
  /\ inflight = {}
  /\ Advance
  /\ UNCHANGED <<variant, isExporting, shouldStop, opts, videoAttached,
                 frameTime, canvasImg, lastRender, inflight, sinkFrames,
                 serverUp, finishAcked, result, callVars, dataVars, cancelLog, logVars>>

(* The frame POST rejected (sink unreachable): caught by the loop's catch. *)
SubmitRejected ==
  /\ pc = "submit"
  /\ inflight' = {}
  /\ CatchLoopError
  /\ sinkError' = "submit"
  /\ UNCHANGED <<variant, shouldStop, opts, currentTime, mediaVars,
                 sinkFrames, serverUp, finishCalls, finishAcked, progress,
                 callVars, dataVars, noBlob>>

-----------------------------------------------------------------------------
(* Variant 3: end of stream *)

(* await fetch(`${serverUrl}/finish`) resolved; finally *)
FinishAcked ==
  /\ pc = "finish"
  /\ finishAcked' = TRUE
  /\ Finally
  /\ Settled("resolved")
  /\ UNCHANGED <<variant, shouldStop, opts, currentTime, mediaVars, inflight,
                 sinkFrames, serverUp, finishCalls, progress, callVars, dataVars,
                 logVars>>

(* A failed finish that settles the call without the finally block. *)
FinishRejectedLeaks ==
  /\ pc = "finish"
  /\ Settled("resolved")
  /\ sinkError' = "finish"
  /\ UNCHANGED <<variant, isExporting, videoAttached, shouldStop, opts,
                 currentTime, mediaVars, sinkVars, progress, callVars, dataVars, noBlob>>

(* The finish POST rejected: caught by the loop's catch; finally *)
FinishRejected ==
  /\ pc = "finish"
  /\ CatchLoopError
  /\ sinkError' = "finish"
  /\ UNCHANGED <<variant, shouldStop, opts, currentTime, mediaVars, sinkVars,
                 progress, callVars, dataVars, noBlob>>

-----------------------------------------------------------------------------
Next ==
  \/ AlreadyInProgress /\ UNCHANGED notExp
  \/ \E o \in OptionsOf(variant) : StartExport(o) /\ UNCHANGED notExp
  \/ cancel /\ UNCHANGED notExp
  \/ VideoDataFetched /\ UNCHANGED notExp
  \/ VideoDataFailed /\ UNCHANGED notExp
  \/ AudioDataFetched /\ UNCHANGED notExp
  \/ AudioDataFailed /\ UNCHANGED notExp
  \/ LoadedData /\ UNCHANGED notExp
  \/ LoadError /\ UNCHANGED notExp
  \/ InvokeResolved /\ UNCHANGED notExp
  \/ InvokeRejected /\ UNCHANGED notExp
  \/ Seeked /\ UNCHANGED notExp
  \/ \E outcome \in {"drawn", "skipped", "threw"} :
       DrawFrame(outcome) /\ UNCHANGED notExp
  \/ \E hasBlob \in BOOLEAN : BlobReady(hasBlob) /\ UNCHANGED notExp
  \/ SinkReceive /\ UNCHANGED notExp
  \/ SubmitResolved /\ UNCHANGED notExp
  \/ SubmitRejected /\ UNCHANGED notExp
  \/ FinishAcked /\ UNCHANGED notExp
  \/ FinishRejected /\ UNCHANGED notExp

Spec == Init /\ [][Next]_vars

-----------------------------------------------------------------------------
(* The dimension negotiation alone, over every input of the bounded sets. *)

DimInit ==
  /\ ExpInit
  /\ DrawIdle
  /\ ZoomIdle
  /\ RenIdle
  /\ dimIn \in DimInputs(variant)
  /\ dimOut = {}

(* The width and height of the exportConfig handed to start_export_server *)
Negotiate ==
  /\ dimOut = {}
  /\ dimOut' = {NegotiatedDimensions(variant, dimIn)}
  /\ UNCHANGED <<dimIn, notDim>>

DimNext == Negotiate

SpecDim == DimInit /\ [][DimNext]_vars

-----------------------------------------------------------------------------
(* VideoRenderer.drawFrame (videoRenderer.ts lines 106-336) and its busy    *)
(* flag.  The function contains no await, so the JavaScript run loop runs   *)
(* each call to its end; the model lets a further call arrive at every      *)
(* statement boundary of the call in progress (as a call made from inside   *)
(* a callee would), which is the case the guard of line 110 is written for. *)

MaxTicks == 4

(* A call counted and classified, up to its last guard *)
Tick(how) ==
  /\ ticks < MaxTicks
  /\ ticks' = ticks + 1
  /\ lastCall' = how

(* The size check that returns without resetting the flag. *)
DrawFrameZeroSizeKeepsFlag ==
  /\ drawPc = "setup"
  /\ drawIn.zeroSize
  /\ drawPc' = "idle"
  /\ UNCHANGED <<isDrawing, drawIn, lastDrawTime, drawn, ticks, lastCall>>

(* finally { this.isDrawing = false; ctx.restore(); } *)
DrawFinally ==
  /\ isDrawing' = FALSE
  /\ drawPc' = "idle"

(* if (this.isDrawing) return; *)
DrawFrameDropped ==
  /\ isDrawing
  /\ Tick("dropped")
  /\ UNCHANGED <<isDrawing, drawPc, drawIn, lastDrawTime, drawn>>

(* if (!video || !canvas || !segment) return; if (video.readyState < 2)     *)
(* return; if (!ctx) return;                                                *)
DrawFrameSkipped(in) ==
  /\ ~isDrawing
  /\ in.missing \/ ~in.ready \/ ~in.hasCtx
  /\ Tick("skipped")
  /\ UNCHANGED <<isDrawing, drawPc, drawIn, lastDrawTime, drawn>>

(* this.isDrawing = true; ...; this.lastDrawTime = now; *)
DrawFrameBegin(in) ==
  /\ ~isDrawing
  /\ ~in.missing /\ in.ready /\ in.hasCtx
  /\ Tick("started")
  /\ isDrawing' = TRUE
  /\ lastDrawTime' = ticks'
  /\ drawPc' = "setup"
  /\ drawIn' = in
  /\ UNCHANGED drawn

(* if (!vidW || !vidH) { this.isDrawing = false; return; } *)
DrawFrameZeroSize ==
  /\ drawPc = "setup"
  /\ drawIn.zeroSize
  /\ isDrawing' = FALSE
  /\ drawPc' = "idle"
  /\ UNCHANGED <<drawIn, lastDrawTime, drawn, ticks, lastCall>>

(* crop, canvas resize, aspect ratio; try { *)
DrawFrameEnterTry ==
  /\ drawPc = "setup"
  /\ ~drawIn.zeroSize
  /\ drawPc' = "try"
  /\ UNCHANGED <<isDrawing, drawIn, lastDrawTime, drawn, ticks, lastCall>>

(* if (!tempCtx) return;  inside the try: the finally block runs *)
DrawFrameNoTempCtx ==
  /\ drawPc = "try"
  /\ ~drawIn.hasTempCtx
  /\ DrawFinally
  /\ UNCHANGED <<drawIn, lastDrawTime, drawn, ticks, lastCall>>

(* A statement of the try body throws: no catch, the finally block runs and *)
(* the promise rejects.                                                     *)
DrawFrameThrew ==
  /\ drawPc = "try"
  /\ drawIn.throws
  /\ DrawFinally
  /\ UNCHANGED <<drawIn, lastDrawTime, drawn, ticks, lastCall>>

(* ctx.drawImage(tempCanvas, 0, 0); cursor; text overlays; finally *)
DrawFrameDone ==
  /\ drawPc = "try"
  /\ drawIn.hasTempCtx
  /\ ~drawIn.throws
  /\ drawn' = drawn + 1
  /\ DrawFinally
  /\ UNCHANGED <<drawIn, lastDrawTime, ticks, lastCall>>

DrawInit ==
  /\ ExpInit
  /\ variant = 3
  /\ DimIdle
  /\ DrawIdle
  /\ ZoomIdle
  /\ RenIdle

DrawNext ==
  \/ DrawFrameDropped /\ UNCHANGED notDraw
  \/ \E in \in DrawInputs : DrawFrameSkipped(in) /\ UNCHANGED notDraw
  \/ \E in \in DrawInputs : DrawFrameBegin(in) /\ UNCHANGED notDraw
  \/ DrawFrameZeroSize /\ UNCHANGED notDraw
  \/ DrawFrameEnterTry /\ UNCHANGED notDraw
  \/ DrawFrameNoTempCtx /\ UNCHANGED notDraw
  \/ DrawFrameThrew /\ UNCHANGED notDraw
  \/ DrawFrameDone /\ UNCHANGED notDraw

SpecDraw == DrawInit /\ [][DrawNext]_vars

-----------------------------------------------------------------------------
(* generateMotionPath and the playback: actions *)

(* if (data.length < 2) return []; *)
GenerateEmpty ==
  /\ zpc = "start"
  /\ Len(FilteredData(zin)) < 2
  /\ zpc' = "play"
  /\ path' = <<>>
  /\ UNCHANGED <<zin, simT, state, interaction, target, playTime, lastCalculatedState>>

(* let state = {...}; let interaction = {...}; for (let t = trimStart; ...) *)
GenerateBegin ==
  /\ zpc = "start"
  /\ Len(FilteredData(zin)) >= 2
  /\ zpc' = "sim"
  /\ simT' = simTrimStart
  /\ state' = [x |-> videoWidth(zin) \div 2, y |-> videoHeight(zin) \div 2,
               zoom |-> ZoomUnit, vx |-> 0, vy |-> 0, vz |-> 0]
  /\ interaction' = [hoverTime |-> 0,
                     lastPos |-> [x |-> FilteredData(zin)[1].x,
                                  y |-> FilteredData(zin)[1].y]]
  /\ UNCHANGED <<zin, target, path, playTime, lastCalculatedState>>

(* One iteration of the loop: t <= segment.trimEnd; ...; path.push; t += dt *)
SimTick ==
  /\ zpc = "sim"
  /\ simT <= simTrimEnd
  /\ LET r == SimStep(zin, FilteredData(zin), simT, state, interaction)
     IN  /\ state' = r.state
         /\ interaction' = r.interaction
         /\ target' = r.target
         /\ path' = Append(path, r.entry)
  /\ simT' = simT + PhysicsDt
  /\ UNCHANGED <<zin, zpc, playTime, lastCalculatedState>>

(* return path; *)
GenerateEnd ==
  /\ zpc = "sim"
  /\ simT > simTrimEnd
  /\ zpc' = "play"
  /\ UNCHANGED <<zin, simT, state, interaction, target, path, playTime, lastCalculatedState>>

(* drawFrame resolves the camera state of the next frame of the playback:   *)
(* calculateCurrentZoomState(video.currentTime, segment, ...)               *)
Resolve ==
  /\ zpc = "play"
  /\ playTime + PlayStep <= simTrimEnd
  /\ playTime' = playTime + PlayStep
  /\ lastCalculatedState' = calculateCurrentZoomState(playTime + PlayStep, zin, path)
  /\ UNCHANGED <<zin, zpc, simT, state, interaction, target, path>>

ZoomInit ==
  /\ ExpInit
  /\ variant = 3
  /\ DimIdle
  /\ DrawIdle
  /\ RenIdle
  /\ zin \in ZoomInputs
  /\ zpc = "start"
  /\ simT = 0
  /\ state = NoState
  /\ interaction = NoInteraction
  /\ target = NoTarget
  /\ path = <<>>
  /\ playTime = -PlayStep
  /\ lastCalculatedState = DEFAULT_STATE

ZoomNext ==
  \/ GenerateEmpty /\ UNCHANGED notZoom
  \/ GenerateBegin /\ UNCHANGED notZoom
  \/ SimTick /\ UNCHANGED notZoom
  \/ GenerateEnd /\ UNCHANGED notZoom
  \/ Resolve /\ UNCHANGED notZoom

SpecZoom == ZoomInit /\ [][ZoomNext]_vars

-----------------------------------------------------------------------------
(* The compositor over one segment: frames resolved in playback order and   *)
(* after seeks, in interactive and in export mode                           *)

(* Bound of the model: seeks of one run *)
MaxScrubs == 1

(* The times a seek goes to *)
ScrubTimes == {0, Second \div 2, Second}

(* The segments played: with and without a dense path, keyframes and        *)
(* influence points                                                         *)
PlayInputs ==
  { in \in ZoomInputs :
      /\ in.trace \in {"none", "still", "fast"}
      /\ in.keyframes \in {"none", "pair", "far"}
      /\ in.influence \in {"none", "ramp"}
      /\ in.size = <<1920, 1080>> }

(* The video is sought to t, by the user or by the start of an export       *)
(* pass, and the frame of t is drawn: drawFrame(context, {exportMode: m})   *)
Scrub(t, m) ==
  /\ zpc = "play"
  /\ scrubs < MaxScrubs
  /\ scrubs' = scrubs + 1
  /\ isExportMode' = m
  /\ playTime' = t
  /\ lastCalculatedState' = calculateCurrentZoomState(t, zin, path)
  /\ UNCHANGED <<zin, zpc, simT, state, interaction, target, path>>
  /\ UNCHANGED <<textVars, squishVars, canvasVars, cursorVars>>

PlayInit ==
  /\ ZoomInit
  /\ zin \in PlayInputs

PlayNext ==
  \/ GenerateEmpty /\ UNCHANGED notZoom
  \/ GenerateBegin /\ UNCHANGED notZoom
  \/ SimTick /\ UNCHANGED notZoom
  \/ GenerateEnd /\ UNCHANGED notZoom
  \/ Resolve /\ UNCHANGED notZoom
  \/ \E t \in ScrubTimes, m \in BOOLEAN : Scrub(t, m) /\ UNCHANGED notRen

SpecPlay == PlayInit /\ [][PlayNext]_vars

-----------------------------------------------------------------------------
(* Text overlays: drawTextOverlay and the mouse handlers of the canvas,     *)
(* with frames drawn in interactive and in export mode                      *)

(* The canvas of the text model, in pixels: a percent is one pixel *)
TextCanvas == [width |-> 100, height |-> 100]

(* The text segment on the canvas: ctx.measureText(text).width and          *)
(* style.fontSize                                                           *)
TextSegment == [id |-> "t1", width |-> 20, fontSize |-> 10]

(* Where the pointer is when a mouse event arrives, in canvas pixels *)
MousePoints == {20, 40, 60, 80}

(* drawTextOverlay: const hitArea *)
hitArea(style) ==
  [x |-> (style.x * TextCanvas.width) \div 100 - TextSegment.width \div 2 - 10,
   y |-> (style.y * TextCanvas.height) \div 100 - TextSegment.fontSize - 10,
   width |-> TextSegment.width + 20,
   height |-> TextSegment.fontSize + 20]

(* handleMouseDown: the pointer is inside the hit area *)
Hit(x, y, style) ==
  /\ x >= hitArea(style).x
  /\ x <= hitArea(style).x + hitArea(style).width
  /\ y >= hitArea(style).y
  /\ y <= hitArea(style).y + hitArea(style).height

(* drawTextOverlay: the highlight rectangle is filled *)
DrawsHighlight(exportMode) == draggedTextId = TextSegment.id

(* handleMouseDown(e, segment, canvas) *)
HandleMouseDown(x, y) ==
  /\ IF Hit(x, y, textStyle)
     THEN /\ isDraggingText' = TRUE
          /\ draggedTextId' = TextSegment.id
          /\ dragOffset' = [x |-> x - (textStyle.x * TextCanvas.width) \div 100,
                            y |-> y - (textStyle.y * TextCanvas.height) \div 100]
     ELSE UNCHANGED <<isDraggingText, draggedTextId, dragOffset>>
  /\ UNCHANGED <<textStyle, highlighted, isExportMode>>

(* handleMouseMove(e, segment, canvas, onTextMove), the callback storing    *)
(* the position in the text segment                                         *)
HandleMouseMove(x, y) ==
  /\ isDraggingText
  /\ draggedTextId # "null"
  /\ textStyle' =
       [x |-> Max(0, Min(100, ((x - dragOffset.x) * 100) \div TextCanvas.width)),
        y |-> Max(0, Min(100, ((y - dragOffset.y) * 100) \div TextCanvas.height))]
  /\ UNCHANGED <<isDraggingText, draggedTextId, dragOffset, highlighted,
                 isExportMode>>

(* handleMouseUp(canvas) *)
HandleMouseUp ==
  /\ isDraggingText' = FALSE
  /\ draggedTextId' = "null"
  /\ UNCHANGED <<dragOffset, textStyle, highlighted, isExportMode>>

(* drawFrame(context, {exportMode}): the text overlays of the frame, the    *)
(* segment's window holding video.currentTime or not                        *)
DrawText(exportMode, active) ==
  /\ isExportMode' = exportMode
  /\ highlighted' = (active /\ DrawsHighlight(exportMode))
  /\ UNCHANGED <<isDraggingText, draggedTextId, dragOffset, textStyle>>

TextInit ==
  /\ ExpInit
  /\ variant = 3
  /\ DimIdle
  /\ DrawIdle
  /\ ZoomIdle
  /\ RenIdle

TextNext ==
  \/ \E x \in MousePoints, y \in MousePoints :
       HandleMouseDown(x, y) /\ UNCHANGED notText
  \/ \E x \in MousePoints, y \in MousePoints :
       HandleMouseMove(x, y) /\ UNCHANGED notText
  \/ HandleMouseUp /\ UNCHANGED notText
  \/ \E m \in BOOLEAN, a \in BOOLEAN : DrawText(m, a) /\ UNCHANGED notText

SpecText == TextInit /\ [][TextNext]_vars

-----------------------------------------------------------------------------
(* The click animation of the cursor: the squish scale from frame to frame, *)
(* with times in 1/120 s and scales in 1/10000                              *)

CLICK_FUSE_THRESHOLD == 18
SQUISH_SPEED == 150
RELEASE_SPEED == 100

(* The scale of a pressed and of a released cursor *)
SquishedScale == (3 * ZoomUnit) \div 4
ReleasedScale == ZoomUnit

(* video.currentTime of a frame, in 1/120 s *)
FrameTimes == {0, 10, 17, 28}

(* this.latestElapsed / (1000 / 120): 2 for the first frame of a loop *)
Elapsed == {0, 2, 8}

(* How far the scale would move without the Math.max or Math.min *)
SquishScaleUnclamped(scale, targetScale, elapsed) ==
  IF scale > targetScale THEN scale - SQUISH_SPEED * elapsed
  ELSE IF scale < targetScale THEN scale + RELEASE_SPEED * elapsed
       ELSE scale

(* drawFrame: this.currentSquishScale after the frame *)
SquishScale(scale, targetScale, elapsed) ==
  IF scale > targetScale
  THEN Max(targetScale, scale - SQUISH_SPEED * elapsed)
  ELSE IF scale < targetScale
       THEN Min(targetScale, scale + RELEASE_SPEED * elapsed)
       ELSE scale

(* drawFrame: const shouldBeSquished *)
shouldBeSquished(isActuallyClicked, ct, holdTime) ==
  \/ isActuallyClicked
  \/ /\ holdTime >= 0
     /\ ct - holdTime < CLICK_FUSE_THRESHOLD
     /\ ct - holdTime > 0

(* drawFrame: const targetScale *)
targetScale(isActuallyClicked, ct, holdTime) ==
  IF shouldBeSquished(isActuallyClicked, ct, holdTime)
  THEN SquishedScale ELSE ReleasedScale

(* drawFrame(context, {exportMode}) at video time ct: the cursor part, the  *)
(* interpolated position being inside the source crop or not                *)
DrawCursor(exportMode, ct, isActuallyClicked, inside, elapsed) ==
  /\ isExportMode' = exportMode
  /\ squishIn' = [time |-> ct, isClicked |-> isActuallyClicked,
                  inside |-> inside, elapsed |-> elapsed,
                  odd |-> ~squishIn.odd]
  /\ IF inside
     THEN /\ lastHoldTime' = IF isActuallyClicked THEN ct ELSE lastHoldTime
          /\ currentSquishScale' =
               SquishScale(currentSquishScale,
                           targetScale(isActuallyClicked, ct, lastHoldTime),
                           elapsed)
     ELSE UNCHANGED <<lastHoldTime, currentSquishScale>>
  /\ UNCHANGED <<animating, cursorVars>>

(* stopAnimation() *)
StopAnimation ==
  /\ IF animating
     THEN /\ animating' = FALSE
          /\ lastHoldTime' = -1
          /\ currentSquishScale' = ReleasedScale
     ELSE UNCHANGED <<animating, lastHoldTime, currentSquishScale>>
  /\ UNCHANGED <<squishIn, isExportMode, cursorVars>>

(* startAnimation(renderContext): stopAnimation(), then the loop is started *)
StartAnimation ==
  /\ animating' = TRUE
  /\ IF animating
     THEN /\ lastHoldTime' = -1
          /\ currentSquishScale' = ReleasedScale
     ELSE UNCHANGED <<lastHoldTime, currentSquishScale>>
  /\ smoothedPositions' = <<>>
  /\ UNCHANGED <<squishIn, isExportMode, cursorIn, cursorOut>>

SquishInit ==
  /\ ExpInit
  /\ variant = 3
  /\ DimIdle
  /\ DrawIdle
  /\ ZoomIdle
  /\ RenIdle

SquishNext ==
  \/ \E m \in BOOLEAN, ct \in FrameTimes, c \in BOOLEAN, i \in BOOLEAN,
        e \in Elapsed :
       DrawCursor(m, ct, c, i, e) /\ UNCHANGED notSquish
  \/ StopAnimation /\ UNCHANGED notSquish
  \/ StartAnimation /\ UNCHANGED notSquish

SpecSquish == SquishInit /\ [][SquishNext]_vars

-----------------------------------------------------------------------------
(* The exporter with every pending event arriving: the media element        *)
(* answers a load and a seek, the sink answers every call, and the          *)
(* continuation of a settled await runs.  Calls of exportAndDownload and of *)
(* cancel stay the caller's choice.                                         *)

Progress ==
  \/ VideoDataFetched
  \/ VideoDataFailed
  \/ AudioDataFetched
  \/ AudioDataFailed
  \/ LoadedData
  \/ LoadError
  \/ InvokeResolved
  \/ InvokeRejected
  \/ Seeked
  \/ \E outcome \in {"drawn", "skipped", "threw"} : DrawFrame(outcome)
  \/ \E hasBlob \in BOOLEAN : BlobReady(hasBlob)
  \/ SinkReceive
  \/ SubmitResolved
  \/ SubmitRejected
  \/ FinishAcked
  \/ FinishRejected

SpecLive == Init /\ [][Next]_vars /\ WF_vars(Progress /\ UNCHANGED notExp)

-----------------------------------------------------------------------------
(* The export canvas of the streaming exporter: sized to the negotiated     *)
(* dimensions before the loop, then drawn on by drawFrame in export mode    *)
(* and encoded for the sink                                                 *)

(* The source video, the preset and segment.crop of one export *)
CanvasInputs ==
  { in \in [ dimensions  : DimensionNames,
             videoWidth  : VideoWidths,
             videoHeight : VideoHeights,
             hasCrop     : BOOLEAN,
             cropW       : 1..CropDen,
             cropH       : 1..CropDen ] :
      ~in.hasCrop => in.cropW = CropDen /\ in.cropH = CropDen }

(* drawFrame: canvasW, canvasH = Math.round(vidW * crop.width), ... *)
CanvasOfSource(in) ==
  [width  |-> Num(Cropped(in.videoWidth, in, in.cropW)),
   height |-> Num(Cropped(in.videoHeight, in, in.cropH))]

(* drawFrame: the canvas after the call, which returns before the resize    *)
(* when the video has no size                                               *)
CanvasAfterDraw(in, size) ==
  IF in.videoWidth = 0 \/ in.videoHeight = 0 THEN size
  ELSE IF size # CanvasOfSource(in) THEN CanvasOfSource(in) ELSE size

(* start_export_server is invoked with the negotiated size; canvas.width =  *)
(* width; canvas.height = height                                            *)
ResizeForExport ==
  /\ dimOut = {}
  /\ dimOut' = {Dimensions3(dimIn)}
  /\ canvasSize' = Dimensions3(dimIn)
  /\ UNCHANGED <<dimIn, frameSizes, isExportMode>>

(* One iteration of the loop: drawFrame(renderContext, {exportMode: true}), *)
(* canvas.toBlob, POST                                                      *)
ExportFrame ==
  /\ dimOut # {}
  /\ isExportMode' = TRUE
  /\ canvasSize' = CanvasAfterDraw(dimIn, canvasSize)
  /\ frameSizes' = frameSizes \cup {CanvasAfterDraw(dimIn, canvasSize)}
  /\ UNCHANGED <<dimIn, dimOut>>

CanvasInit ==
  /\ ExpInit
  /\ variant = 3
  /\ DrawIdle
  /\ ZoomIdle
  /\ RenIdle
  /\ dimIn \in CanvasInputs
  /\ dimOut = {}

CanvasNext ==
  \/ ResizeForExport /\ UNCHANGED notCanvas
  \/ ExportFrame /\ UNCHANGED notCanvas

SpecCanvas == CanvasInit /\ [][CanvasNext]_vars

-----------------------------------------------------------------------------
(* The cursor of a frame: interpolateCursorPosition and the cache of the    *)
(* smoothed trace, over traces of fewer than four samples                   *)

(* mousePositions of a render context: fewer than four samples each, which  *)
(* smoothMousePositions returns as they are                                 *)
CursorTraces ==
  [ none  |-> <<>>,
    left  |-> <<Pos(0, 100, 100, FALSE), Pos(Second, 200, 100, TRUE)>>,
    right |-> <<Pos(0, 900, 500, FALSE), Pos(Second \div 2, 800, 500, FALSE),
                Pos(Second, 700, 500, FALSE)>> ]

(* video.currentTime of a frame *)
CursorTimes == {0, Second \div 4, Second \div 2, Second + 1, 2 * Second}

(* smoothMousePositions(positions): if (positions.length < 4) return        *)
(* positions                                                                *)
smoothMousePositions(positions) == positions

(* interpolateCursorPosition: this.smoothedPositions after the call, the    *)
(* empty sequence standing for null as well (!this.smoothedPositions ||     *)
(* this.smoothedPositions.length === 0)                                     *)
CachedPositions(cache, mousePositions) ==
  IF Len(mousePositions) = 0 THEN cache
  ELSE IF cache = <<>>
       THEN smoothMousePositions(mousePositions)
       ELSE cache

(* A position as interpolateCursorPosition returns it *)
CursorAt(p) == [x |-> p.x, y |-> p.y, isClicked |-> p.isClicked]

(* interpolateCursorPosition: the result read from positions, times within  *)
(* 0.001 s counting as equal                                                *)
Interpolated(positions, ct) ==
  IF \E i \in 1..Len(positions) :
       Abs(positions[i].timestamp - ct) < Second \div 1000
  THEN CursorAt(positions[CHOOSE i \in 1..Len(positions) :
                  /\ Abs(positions[i].timestamp - ct) < Second \div 1000
                  /\ \A j \in 1..(i - 1) :
                       Abs(positions[j].timestamp - ct) >= Second \div 1000])
  ELSE IF \A i \in 1..Len(positions) : positions[i].timestamp <= ct
       THEN CursorAt(positions[Len(positions)])
       ELSE IF positions[1].timestamp > ct
            THEN CursorAt(positions[1])
            ELSE LET nextIndex == CHOOSE i \in 1..Len(positions) :
                                    /\ positions[i].timestamp > ct
                                    /\ \A j \in 1..(i - 1) :
                                         positions[j].timestamp <= ct
                     prev == positions[nextIndex - 1]
                     next == positions[nextIndex]
                 IN  [x |-> prev.x + Div((next.x - prev.x) * (ct - prev.timestamp),
                                         next.timestamp - prev.timestamp),
                      y |-> prev.y + Div((next.y - prev.y) * (ct - prev.timestamp),
                                         next.timestamp - prev.timestamp),
                      isClicked |-> prev.isClicked \/ next.isClicked]

(* interpolateCursorPosition(currentTime, mousePositions): the position     *)
(* returned, or nothing for null                                            *)
interpolateCursorPosition(cache, ct, mousePositions) ==
  IF Len(mousePositions) = 0 THEN {}
  ELSE {Interpolated(CachedPositions(cache, mousePositions), ct)}

(* drawFrame(context, {exportMode}) at video time ct with                   *)
(* context.mousePositions = the trace: the cursor position of the frame     *)
ResolveCursor(exportMode, ct, trace) ==
  /\ isExportMode' = exportMode
  /\ cursorIn' = [time |-> ct, trace |-> trace]
  /\ smoothedPositions' = CachedPositions(smoothedPositions, CursorTraces[trace])
  /\ cursorOut' = interpolateCursorPosition(smoothedPositions, ct,
                                            CursorTraces[trace])
  /\ UNCHANGED squishVars

CursorInit ==
  /\ ExpInit
  /\ variant = 3
  /\ DimIdle
  /\ DrawIdle
  /\ ZoomIdle
  /\ RenIdle

CursorNext ==
  \/ \E m \in BOOLEAN, ct \in CursorTimes, trace \in DOMAIN CursorTraces :
       ResolveCursor(m, ct, trace) /\ UNCHANGED notSquish
  \/ StartAnimation /\ UNCHANGED notSquish
  \/ StopAnimation /\ UNCHANGED notSquish

SpecCursor == CursorInit /\ [][CursorNext]_vars

-----------------------------------------------------------------------------
(* Properties *)

AllFrames == inflight \cup {sinkFrames[i] : i \in 1..Len(sinkFrames)}

(* C1: a call made while isExporting is true throws 'Export already in      *)
(* progress' and changes nothing of the exporter, the media element, the    *)
(* canvas or the sink: the export in flight goes on as without it.          *)
C1_BusyCallRejected ==
  [][ (attempts' # attempts /\ isExporting)
        => /\ busyError'
           /\ UNCHANGED <<isExporting, shouldStop, pc, opts, currentTime,
                          videoAttached, mediaVars, sinkVars, progress,
                          result>> ]_vars

C1_Witness ==
  /\ busyError
  /\ isExporting
  /\ pc = "submit"
  /\ Len(sinkFrames) >= 1

(* C2: frames reach the sink in strictly increasing timestamp order, at     *)
(* most one POST is in flight, and the loop is at its submit await while    *)
(* one is: no seek, render or encode of a later frame has begun.            *)
C2_FramesInOrderOneAtATime ==
  /\ Cardinality(inflight) <= 1
  /\ inflight # {} => pc = "submit"
  /\ \A i, j \in 1..Len(sinkFrames) : i < j => sinkFrames[i].t < sinkFrames[j].t
  /\ \A f \in inflight : \A i \in 1..Len(sinkFrames) : sinkFrames[i].t < f.t
  /\ pc \in {"seek", "render", "encode"} => \A f \in AllFrames : f.t < currentTime

C2_Witness ==
  /\ Len(sinkFrames) >= 2
  /\ inflight # {}

(* C3: while the seek for the current timestamp is pending the loop waits:  *)
(* nothing is rendered or submitted for that timestamp; render, encode and  *)
(* submit run with the video at the current timestamp, and every drawn      *)
(* frame shows the video frame of its own timestamp.                        *)
C3_SeekBeforeRender ==
  /\ seekPending => /\ pc = "seek"
                    /\ canvasImg < currentTime
                    /\ \A f \in AllFrames : f.t < currentTime
  /\ pc \in {"render", "encode", "submit"} => /\ ~seekPending
                                              /\ frameTime = currentTime
  /\ lastRender[1] = lastRender[2]
  /\ \A f \in AllFrames : f.img <= f.t

C3_Witness ==
  /\ pc = "submit"
  /\ lastRender = <<currentTime, currentTime>>
  /\ currentTime > opts.trimStart

(* C4: whenever an exportAndDownload call has settled, isExporting is false *)
(* and the off-screen video has been removed from the document.             *)
C4_SettledMeansIdle ==
  (pc = "idle" /\ result \in {"resolved", "rejected"})
    => (~isExporting /\ ~videoAttached)

(* C5: when a sink call (start, frame submit, finish) of an export failed,  *)
(* the call has rejected and the resources are released.                    *)
C5_SinkFailureSurfaced ==
  (pc = "idle" /\ sinkError # "none")
    => (result = "rejected" /\ ~isExporting /\ ~videoAttached)

(* C6: after a cancel() made while streaming the flag stays set, the        *)
(* iteration in flight runs to its end (its frame is submitted unless       *)
(* toBlob gave none, and time advances once), no frame of a later timestamp *)
(* is rendered or submitted, and finish is sent once.                       *)
C6_CancelWhileStreaming ==
  (variant = 3 /\ cancelAt # -1)
    => /\ shouldStop
       /\ Phase \in {"Streaming", "Finishing"}
       /\ \A f \in AllFrames : f.t <= cancelAt
       /\ lastRender[1] <= cancelAt
       /\ Phase = "Streaming" => currentTime = cancelAt
       /\ Phase = "Finishing"
            => /\ currentTime = cancelAt + step(opts)
               /\ finishCalls = 1
               /\ inflight = {}
               /\ \/ cancelAt \in noBlob
                  \/ \E i \in 1..Len(sinkFrames) : sinkFrames[i].t = cancelAt

C6_Witness ==
  /\ variant = 3
  /\ cancelAt # -1
  /\ Phase = "Finishing"
  /\ currentTime < trimEnd(opts)
  /\ \E i \in 1..Len(sinkFrames) : sinkFrames[i].t = cancelAt

(* C7 as stated: an export that was cancelled only while Idle or Starting   *)
(* streams every frame of its range.                                        *)
C7_CancelOnlyFromStreaming ==
  (variant = 3 /\ Phase = "Finishing" /\ cancelPhases \subseteq {"Idle", "Starting"})
    => currentTime >= trimEnd(opts)

C7_PhaseOrder ==
  Phase' # Phase
    => <<Phase, Phase'>> \in { <<"Idle", "Starting">>,
                               <<"Starting", "Streaming">>,
                               <<"Starting", "Finishing">>,
                               <<"Starting", "Idle">>,
                               <<"Streaming", "Finishing">>,
                               <<"Streaming", "Idle">>,
                               <<"Finishing", "Idle">> }

C7_FlagMonotone ==
  (pc # "idle" /\ pc' # "idle" /\ shouldStop) => shouldStop'

C7_CancelEffect ==
  variant = 3
    => /\ (pc # "idle" /\ cancelPhases \subseteq {"Idle"}) => ~shouldStop
       /\ (Phase = "Finishing" /\ cancelPhases \subseteq {"Idle"})
            => currentTime >= trimEnd(opts)
       /\ (pc # "idle" /\ cancelPhases \ {"Idle"} # {}) => shouldStop
       /\ ("Starting" \in cancelPhases /\ Phase \in {"Streaming", "Finishing"})
            => /\ Phase = "Finishing"
               /\ currentTime = opts.trimStart
               /\ AllFrames = {}
               /\ progress = <<>>

(* C7 amended: the phases only move forward (Idle, Starting, Streaming,     *)
(* Finishing, Idle, a failure leaving for Idle early and an export          *)
(* cancelled while Starting going from Starting to Finishing); a cancel()   *)
(* made while Idle cancels nothing; a cancel() made while Starting is kept  *)
(* and observed at the first loop check, so no frame is streamed; within    *)
(* one export the flag only changes from not-cancelled to cancelled.        *)
C7_CancelFromStartingOrStreaming ==
  [][C7_PhaseOrder /\ C7_FlagMonotone /\ C7_CancelEffect']_vars

C7_Witness ==
  /\ variant = 3
  /\ Phase = "Finishing"
  /\ cancelPhases = {"Idle", "Starting"}
  /\ currentTime < trimEnd(opts)
  /\ AllFrames = {}

(* C8 as stated: finish is sent exactly once, after the last frame POST has *)
(* resolved and with the resources still held, and the exporter is back in  *)
(* Idle only after the sink has acknowledged it.                            *)
C8_IdleOnlyAfterFinishAck ==
  variant = 3
    => /\ finishCalls <= 1
       /\ Phase = "Finishing"
            => (finishCalls = 1 /\ inflight = {} /\ isExporting /\ videoAttached)
       /\ (pc = "idle" /\ finishCalls = 1) => finishAcked

(* C8 amended: finish is sent exactly once, after the last frame POST has   *)
(* resolved and with the resources still held, and the exporter releases    *)
(* the video and is back in Idle only after the finish call has settled:    *)
(* acknowledged by the sink, or failed.                                     *)
C8_IdleOnlyAfterFinishSettled ==
  variant = 3
    => /\ finishCalls <= 1
       /\ finishCalls = 1 => pc \in {"finish", "idle"}
       /\ finishAcked => (finishCalls = 1 /\ pc = "idle")
       /\ Phase = "Finishing"
            => (finishCalls = 1 /\ inflight = {} /\ isExporting /\ videoAttached)
       /\ (pc = "idle" /\ finishCalls = 1)
            => /\ finishAcked \/ sinkError = "finish"
               /\ ~isExporting
               /\ ~videoAttached

C8_Witness ==
  /\ variant = 3
  /\ pc = "idle"
  /\ finishCalls = 1
  /\ finishAcked
  /\ ~isExporting
  /\ Len(sinkFrames) >= 2

(* C9: the values passed to onProgress are non-decreasing and below 100,    *)
(* and the call has resolved only if the sink acknowledged finish.          *)
C9_ProgressAndCompletion ==
  variant = 3
    => /\ \A i \in 1..Len(progress) : progress[i] < 100 * Range(opts)
       /\ \A i, j \in 1..Len(progress) : i < j => progress[i] <= progress[j]
       /\ result = "resolved" => finishAcked

IsEvenInteger(n) == n.kind = "int" /\ n.v % 2 = 0

(* C10: the width and the height passed to start_export_server are even    *)
(* integers, for every video size, crop and preset name.                    *)
C10_EvenDimensions ==
  \A d \in dimOut : IsEvenInteger(d.width) /\ IsEvenInteger(d.height)

(* The cropped source size the negotiation of variant 1 starts from *)
CroppedW(in) == Cropped(OrDefault(in.videoWidth, 1920), in, in.cropW)
CroppedH(in) == Cropped(OrDefault(in.videoHeight, 1080), in, in.cropH)

(* w is h * cW / cH rounded to an integer and then made even *)
AspectPreserved(w, h, cW, cH) ==
  /\ IsEvenInteger(w)
  /\ 2 * w.v * cH <= 2 * h * cW + cH
  /\ 2 * w.v * cH >= 2 * h * cW - 3 * cH

(* C11: '1080p' gives height 1080 and '720p' height 720, with the width     *)
(* following the aspect ratio of the cropped source up to rounding to an    *)
(* even integer, for every source size and crop; 'original' gives the       *)
(* cropped source size (made even); a 16:9 crop with '1080p' gives          *)
(* 1920x1080.                                                               *)
C11_PresetHeightAspectWidth ==
  variant = 1 =>
    \A d \in dimOut :
      LET cW == CroppedW(dimIn)
          cH == CroppedH(dimIn)
      IN  /\ dimIn.dimensions = "1080p"
               => d.height = Num(1080) /\ AspectPreserved(d.width, 1080, cW, cH)
          /\ dimIn.dimensions = "720p"
               => d.height = Num(720) /\ AspectPreserved(d.width, 720, cW, cH)
          /\ dimIn.dimensions = "original"
               => d.width = MakeEven(Num(cW)) /\ d.height = MakeEven(Num(cH))
          /\ (dimIn.dimensions = "1080p" /\ cH > 0 /\ 9 * cW = 16 * cH)
               => d = [width |-> Num(1920), height |-> Num(1080)]

(* C12: when the extraction of the video bytes failed, the call has         *)
(* rejected and start_export_server was never called; when the extraction   *)
(* of the audio bytes failed, the failure is only logged: the call goes on, *)
(* start_export_server is called once, with audioData null and the video    *)
(* data as extracted.                                                       *)
C12_ExtractionFailure ==
  variant = 1
    => /\ "video" \in extractFailed
            => /\ pc = "idle"
               /\ result = "rejected"
               /\ startCalls = <<>>
               /\ ~serverUp
       /\ "audio" \in extractFailed
            => /\ pc \in {"invoke", "idle"}
               /\ pc = "idle" => (serverUp \/ sinkError = "start")
               /\ Len(startCalls) = 1
               /\ startCalls[1].audioData = "null"
               /\ startCalls[1].videoData = videoDataArray
               /\ opts.videoBlob <=> startCalls[1].videoData = "bytes"

C12_Witness ==
  /\ variant = 1
  /\ extractFailed = {"audio"}
  /\ pc = "idle"
  /\ result = "resolved"
  /\ startCalls = <<[videoData |-> "bytes", audioData |-> "null"]>>

(* C13: a frame the compositor could not render is omitted and the loop     *)
(* goes on: every frame submitted to the sink shows the render of its own   *)
(* timestamp (nothing is submitted for a timestamp whose render was         *)
(* skipped), and no render ends the export, which without a sink failure    *)
(* resolves only after the finish call.                                     *)
C13_SkippedFrameOmitted ==
  variant = 3
    => /\ \A f \in AllFrames : f.img = f.t
       /\ (pc = "idle" /\ result = "resolved" /\ sinkError = "none")
            => finishCalls = 1

(* A drawFrame call is in its body, between line 127 and its exit *)
Rendering == drawPc # "idle"

(* C14: a drawFrame call made while another is rendering returns at once:   *)
(* it is dropped, not queued, and changes nothing of the renderer or of the *)
(* call in progress; the busy flag is set exactly while a call is           *)
(* rendering, so every exit path (early return, exception, normal end) has  *)
(* cleared it and a later call is not dropped once the renderer is idle.    *)
C14_BusyFlag ==
  [][ /\ (ticks' # ticks /\ Rendering)
        => /\ lastCall' = "dropped"
           /\ UNCHANGED <<isDrawing, drawPc, drawIn, lastDrawTime, drawn>>
      /\ (ticks' # ticks /\ ~Rendering) => lastCall' # "dropped"
      /\ isDrawing' <=> Rendering' ]_vars

C14_Witness ==
  /\ lastCall = "dropped"
  /\ ~isDrawing
  /\ drawPc = "idle"
  /\ drawIn.throws
  /\ drawn >= 1

(* Slack of one pixel, in the 1/10 px of the recorded positions, for the     *)
(* rounding of the recorded values                                          *)
RecordTolerance == PosUnit \div 10

(* The viewport of a path entry on one axis, size / zoom wide around p,     *)
(* lies inside [0, size]; p and size in 1/10 px                             *)
ViewportInside(p, zoom, size) ==
  /\ 2 * (p + RecordTolerance) * zoom >= size * ZoomUnit
  /\ 2 * (size - p + RecordTolerance) * zoom >= size * ZoomUnit

(* C15: every entry of the generated path has 1.0 <= zoom <= MAX_ZOOM and   *)
(* a viewport inside the frame on both axes (up to the rounding of the      *)
(* recorded values), for every pointer trace, keyframe set and frame size.  *)
C15_ZoomAndViewportBounds ==
  \A i \in 1..Len(path) :
    /\ MIN_ZOOM <= path[i].zoom
    /\ path[i].zoom <= MAX_ZOOM
    /\ ViewportInside(path[i].x, path[i].zoom, videoWidth(zin) \div 10)
    /\ ViewportInside(path[i].y, path[i].zoom, videoHeight(zin) \div 10)


(* The measured pointer speed of the last simulated tick is at or above the *)
(* velocity ceiling; target.velocity is in 1/10 px per second               *)
AtVelocityCeiling ==
  /\ target.t >= 0
  /\ target.velocity >= 10 * MAX_VELOCITY_ZOOM_PENALTY

(* C16: at every simulation tick where the measured pointer speed is at or  *)
(* above the velocity ceiling, the target zoom given by the velocity,       *)
(* click, dwell and edge rules is MIN_ZOOM.                                 *)
C16_VelocityCeilingWins == AtVelocityCeiling => target.auto.zoom = MIN_ZOOM


(* The keyframes nearest to t among those less than WINDOW away *)
NearestInWindow(keyframes, t) ==
  { i \in 1..Len(keyframes) :
      /\ KfDist(keyframes[i], t) < WINDOW
      /\ \A j \in 1..Len(keyframes) :
           KfDist(keyframes[i], t) <= KfDist(keyframes[j], t) }

(* The weight of every keyframe of the window around t lies in [0, 1], is   *)
(* 1 at distance 0, does not grow with the distance and is 0 at the edge    *)
WeightShape(keyframes, t) ==
  /\ KeyframeWeight(WINDOW) = 0
  /\ \A i \in 1..Len(keyframes) :
       LET dist == KfDist(keyframes[i], t)
       IN  dist < WINDOW =>
             /\ KeyframeWeight(dist) \in 0..WeightUnit
             /\ dist = 0 => KeyframeWeight(dist) = WeightUnit
             /\ dist + PlayStep <= WINDOW =>
                  KeyframeWeight(dist + PlayStep) <= KeyframeWeight(dist)

(* The target of the last simulated tick is the automatic target blended    *)
(* toward the nearest keyframe of the window, and the keyframe itself at    *)
(* the keyframe's time                                                      *)
MagnetByNearest ==
  LET keyframes == zoomKeyframes(zin)
      t == target.t
      auto == target.auto
      near == NearestInWindow(keyframes, t)
  IN  IF near = {}
      THEN /\ target.weight = 0
           /\ target.x = auto.x /\ target.y = auto.y /\ target.zoom = auto.zoom
      ELSE \E i \in near :
             LET kf == keyframes[i]
                 w == KeyframeWeight(KfDist(kf, t))
                 kfX == Div(kf.positionX * videoWidth(zin), ZoomUnit)
                 kfY == Div(kf.positionY * videoHeight(zin), ZoomUnit)
             IN  /\ target.x = Blend(auto.x, kfX, w)
                 /\ target.y = Blend(auto.y, kfY, w)
                 /\ target.zoom = Blend(auto.zoom, kf.zoomFactor, w)
                 /\ kf.time = t =>
                      /\ target.x = kfX /\ target.y = kfY
                      /\ target.zoom = kf.zoomFactor

(* The state resolved from the dense path at playTime is the automatic      *)
(* state blended toward the nearest keyframe of the window, and the         *)
(* keyframe itself at the keyframe's time                                   *)
ResolvedByNearest ==
  LET keyframes == zoomKeyframes(zin)
      auto == DenseState(path, zoomInfluencePoints(zin), <<>>, playTime,
                         videoWidth(zin) \div 10, videoHeight(zin) \div 10)
      near == NearestInWindow(keyframes, playTime)
      resolved == lastCalculatedState
  IN  IF near = {}
      THEN resolved = auto
      ELSE \E i \in near :
             LET kf == keyframes[i]
                 w == KeyframeWeight(KfDist(kf, playTime))
             IN  /\ resolved.zoomFactor = Blend(auto.zoomFactor, kf.zoomFactor, w)
                 /\ resolved.positionX = Blend(auto.positionX, kf.positionX, w)
                 /\ resolved.positionY = Blend(auto.positionY, kf.positionY, w)
                 /\ kf.time = playTime =>
                      /\ resolved.zoomFactor = kf.zoomFactor
                      /\ resolved.positionX = kf.positionX
                      /\ resolved.positionY = kf.positionY

(* C17: keyframe magnetism uses only the single keyframe nearest in time    *)
(* among those less than 1.5 s away; its weight lies in [0, 1], is 1 at     *)
(* distance 0 and 0 at the window edge; zoom and both position axes are     *)
(* auto * (1 - w) + keyframe * w, and the automatic value when no keyframe  *)
(* is in the window; so at a keyframe's time the generator's target and     *)
(* the state resolved from the dense path equal the keyframe.               *)
C17_NearestKeyframeMagnet ==
  /\ target.t >= 0 =>
       WeightShape(zoomKeyframes(zin), target.t) /\ MagnetByNearest
  /\ (zpc = "play" /\ playTime >= 0 /\ path # <<>>) =>
       WeightShape(zoomKeyframes(zin), playTime) /\ ResolvedByNearest

(* Two keyframes are in the window, the playback is at the time of the      *)
(* later one, which is not the first of the array, and the resolved state   *)
(* and the generator's target of that time are the keyframe's, not the      *)
(* automatic ones                                                           *)
C17_Witness ==
  /\ zpc = "play"
  /\ path # <<>>
  /\ \E i \in 2..Len(zoomKeyframes(zin)) :
       LET kf == zoomKeyframes(zin)[i]
       IN  /\ kf.time = playTime
           /\ \E j \in 1..Len(zoomKeyframes(zin)) :
                j # i /\ KfDist(zoomKeyframes(zin)[j], playTime) < WINDOW
           /\ lastCalculatedState.zoomFactor = kf.zoomFactor
           /\ lastCalculatedState.positionX = kf.positionX
           /\ PathCamera(path, playTime).zoom # kf.zoomFactor


(* The most a continuous resolved state moves in one time unit (1/3000 s):  *)
(* a hundredth of the zoom and position unit, 30 units per second           *)
MaxSlew == ZoomUnit \div 100

(* Two resolved states less than MaxSlew apart in zoom and position *)
NoJump(a, b) ==
  /\ Abs(a.zoomFactor - b.zoomFactor) <= MaxSlew
  /\ Abs(a.positionX - b.positionX) <= MaxSlew
  /\ Abs(a.positionY - b.positionY) <= MaxSlew

(* C18: keyframe blending is continuous in time: the state resolved from    *)
(* the dense path at the playback time and the states resolved one time     *)
(* unit (1/3000 s) before and after it differ by no more than MaxSlew, for  *)
(* every set of keyframes.                                                  *)
C18_BlendContinuous ==
  (zpc = "play" /\ playTime >= 1 /\ path # <<>>) =>
    /\ NoJump(calculateCurrentZoomState(playTime - 1, zin, path), lastCalculatedState)
    /\ NoJump(lastCalculatedState, calculateCurrentZoomState(playTime + 1, zin, path))


(* prev: the latest keyframe with time <= t; next: the earliest with        *)
(* time > t; the empty set when there is none                               *)
PrevKeyframes(keyframes, t) ==
  { i \in 1..Len(keyframes) :
      /\ keyframes[i].time <= t
      /\ \A j \in 1..Len(keyframes) :
           keyframes[j].time <= t => keyframes[j].time <= keyframes[i].time }
NextKeyframes(keyframes, t) ==
  { i \in 1..Len(keyframes) :
      /\ keyframes[i].time > t
      /\ \A j \in 1..Len(keyframes) :
           keyframes[j].time > t => keyframes[j].time >= keyframes[i].time }

(* s is the cubic ease-out interpolation from a to b at progress num / den *)
EasedBetween(s, a, b, num, den) ==
  LET x == Min(WeightUnit, Max(0, Div(WeightUnit * num, den)))
      e == WeightUnit - Div((WeightUnit - x) * (WeightUnit - x) * (WeightUnit - x),
                            WeightUnit * WeightUnit)
  IN  /\ s.zoomFactor = a.zoomFactor + Div((b.zoomFactor - a.zoomFactor) * e, WeightUnit)
      /\ s.positionX = a.positionX + Div((b.positionX - a.positionX) * e, WeightUnit)
      /\ s.positionY = a.positionY + Div((b.positionY - a.positionY) * e, WeightUnit)

(* s has the zoom and the position of a *)
SameCamera(s, a) ==
  /\ s.zoomFactor = a.zoomFactor
  /\ s.positionX = a.positionX
  /\ s.positionY = a.positionY

(* The playback resolves from the keyframes alone: there is no dense path *)
ResolvingDiscrete == zpc = "play" /\ playTime >= 0 /\ path = <<>>

(* C19 as stated: without a dense path, the state is the cubic ease-out     *)
(* interpolation between prev and next when both exist and their gap is     *)
(* below 1.0 s, and in every other case the previous keyframe's state, or   *)
(* the identity default when no keyframe precedes t.                        *)
C19_HoldOutsideShortGap ==
  ResolvingDiscrete =>
    LET keyframes == zoomKeyframes(zin)
        t == playTime
        prev == PrevKeyframes(keyframes, t)
        next == NextKeyframes(keyframes, t)
    IN  IF prev # {} /\ next # {}
           /\ \A p \in prev, n \in next :
                keyframes[n].time - keyframes[p].time < TRANSITION_DURATION
        THEN \A p \in prev, n \in next :
               EasedBetween(lastCalculatedState, keyframes[p], keyframes[n],
                            t - keyframes[p].time,
                            keyframes[n].time - keyframes[p].time)
        ELSE IF prev # {}
             THEN \A p \in prev : SameCamera(lastCalculatedState, keyframes[p])
             ELSE SameCamera(lastCalculatedState, DEFAULT_STATE)

(* C19 amended: without a dense path, the state is the cubic ease-out       *)
(* interpolation between prev and next, at progress (t - prev.time) / gap,  *)
(* when both exist and their gap is at most 1.0 s; otherwise, when next     *)
(* exists and is at most 1.0 s ahead, it is the cubic ease-out              *)
(* interpolation from prev (the identity default when no keyframe precedes  *)
(* t) to next at progress 1 - (next.time - t); in every other case it is    *)
(* exactly the previous keyframe, or the identity default when no keyframe  *)
(* precedes t.                                                              *)
C19_DiscreteResolution ==
  ResolvingDiscrete =>
    LET keyframes == zoomKeyframes(zin)
        t == playTime
        prev == PrevKeyframes(keyframes, t)
        next == NextKeyframes(keyframes, t)
    IN  IF prev # {} /\ next # {}
           /\ \A p \in prev, n \in next :
                keyframes[n].time - keyframes[p].time <= TRANSITION_DURATION
        THEN \A p \in prev, n \in next :
               EasedBetween(lastCalculatedState, keyframes[p], keyframes[n],
                            t - keyframes[p].time,
                            keyframes[n].time - keyframes[p].time)
        ELSE IF next # {} /\ \A n \in next : keyframes[n].time - t <= TRANSITION_DURATION
             THEN \A n \in next :
                    LET timeToNext == keyframes[n].time - t
                    IN  IF prev # {}
                        THEN \A p \in prev :
                               EasedBetween(lastCalculatedState, keyframes[p],
                                            keyframes[n],
                                            TRANSITION_DURATION - timeToNext,
                                            TRANSITION_DURATION)
                        ELSE EasedBetween(lastCalculatedState, DEFAULT_STATE,
                                          keyframes[n],
                                          TRANSITION_DURATION - timeToNext,
                                          TRANSITION_DURATION)
             ELSE IF prev # {}
                  THEN \A p \in prev : lastCalculatedState = keyframes[p]
                  ELSE lastCalculatedState = DEFAULT_STATE

(* The playback is in the last second before a keyframe that is more than   *)
(* 1.0 s after the previous one, and the resolved state has left the        *)
(* previous keyframe's zoom for the next one's                              *)
C19_Witness ==
  /\ ResolvingDiscrete
  /\ \E p \in PrevKeyframes(zoomKeyframes(zin), playTime),
        n \in NextKeyframes(zoomKeyframes(zin), playTime) :
       LET prevKeyframe == zoomKeyframes(zin)[p]
           nextKeyframe == zoomKeyframes(zin)[n]
       IN  /\ nextKeyframe.time - prevKeyframe.time > TRANSITION_DURATION
           /\ nextKeyframe.time - playTime < TRANSITION_DURATION
           /\ lastCalculatedState.zoomFactor # prevKeyframe.zoomFactor
           /\ lastCalculatedState.zoomFactor # nextKeyframe.zoomFactor


(* The influence points bracketing t: the latest with time < t and the      *)
(* earliest with time >= t; the empty set when there is none                *)
PointsBefore(points, t) ==
  { i \in 1..Len(points) :
      /\ points[i].time < t
      /\ \A j \in 1..Len(points) :
           points[j].time < t => points[j].time <= points[i].time }
PointsFrom(points, t) ==
  { i \in 1..Len(points) :
      /\ points[i].time >= t
      /\ \A j \in 1..Len(points) :
           points[j].time >= t => points[j].time >= points[i].time }

(* i lies between the values of the points bracketing t, and is the first   *)
(* or the last point's value outside their time range                       *)
BetweenBracketing(i, points, t) ==
  LET before == PointsBefore(points, t)
      from == PointsFrom(points, t)
  IN  /\ from = {} => i = points[Len(points)].value
      /\ before = {} => i = points[1].value
      /\ \A a \in before, b \in from :
           /\ i >= Min(points[a].value, points[b].value)
           /\ i <= Max(points[a].value, points[b].value)
      /\ i \in 0..WeightUnit

(* The resolved state s is the camera cam of the dense path scaled toward   *)
(* the centred, zoom 1 state by i; viewW and viewH in 1/10 px               *)
ScaledTowardNeutral(s, cam, i, viewW, viewH) ==
  LET zoom == ZoomUnit + Div((cam.zoom - ZoomUnit) * i, WeightUnit)
      x == viewW \div 2 + Div((cam.x - viewW \div 2) * i, WeightUnit)
      y == viewH \div 2 + Div((cam.y - viewH \div 2) * i, WeightUnit)
  IN  /\ s.zoomFactor = zoom
      /\ s.positionX = Div(x * ZoomUnit, viewW)
      /\ s.positionY = Div(y * ZoomUnit, viewH)
      /\ i = WeightUnit =>
           /\ s.zoomFactor = cam.zoom
           /\ s.positionX = Div(cam.x * ZoomUnit, viewW)
           /\ s.positionY = Div(cam.y * ZoomUnit, viewH)
      /\ i = 0 =>
           /\ s.zoomFactor = ZoomUnit
           /\ s.positionX = ZoomUnit \div 2
           /\ s.positionY = ZoomUnit \div 2

(* The playback resolves from the dense path with influence points *)
ResolvingWithInfluence ==
  /\ zpc = "play"
  /\ playTime >= 0
  /\ path # <<>>
  /\ Len(zoomInfluencePoints(zin)) > 0

(* C20: with influence points present, the influence i at the playback      *)
(* time lies between the values of the two bracketing points (the first or  *)
(* last point's value outside their range), so in [0, 1]; the camera of     *)
(* the dense path is scaled by it, zoom to 1 + (zoom - 1) * i and position  *)
(* to centre + (pos - centre) * i; i = 1 leaves it unchanged and i = 0      *)
(* gives the centred state of zoom 1.  The scaled camera is the resolved    *)
(* state wherever no keyframe is less than 1.5 s away.                      *)
C20_InfluenceScaling ==
  ResolvingWithInfluence =>
    LET points == zoomInfluencePoints(zin)
        i == Influence(points, playTime)
    IN  /\ BetweenBracketing(i, points, playTime)
        /\ NearestInWindow(zoomKeyframes(zin), playTime) = {} =>
             ScaledTowardNeutral(lastCalculatedState, PathCamera(path, playTime), i,
                                 videoWidth(zin) \div 10, videoHeight(zin) \div 10)

(* The playback is strictly between two influence points of different       *)
(* values, no keyframe is near, and the resolved zoom lies strictly between *)
(* 1 and the zoom of the dense path                                         *)
C20_Witness ==
  /\ ResolvingWithInfluence
  /\ NearestInWindow(zoomKeyframes(zin), playTime) = {}
  /\ \E a \in PointsBefore(zoomInfluencePoints(zin), playTime),
        b \in PointsFrom(zoomInfluencePoints(zin), playTime) :
       /\ zoomInfluencePoints(zin)[a].value # zoomInfluencePoints(zin)[b].value
       /\ zoomInfluencePoints(zin)[b].time > playTime
  /\ Influence(zoomInfluencePoints(zin), playTime) \in 1..(WeightUnit - 1)
  /\ lastCalculatedState.zoomFactor > ZoomUnit
  /\ lastCalculatedState.zoomFactor < PathCamera(path, playTime).zoom
  /\ lastCalculatedState.positionX # ZoomUnit \div 2


(* What a renderer that has drawn no frame resolves for the segment at ct *)
FreshState(in, smoothMotionPath, ct) ==
  IF Len(smoothMotionPath) > 0
  THEN DenseState(smoothMotionPath, zoomInfluencePoints(in), zoomKeyframes(in), ct,
                  videoWidth(in) \div 10, videoHeight(in) \div 10)
  ELSE DiscreteState(zoomKeyframes(in), ct)

C22_NoDragInExport ==
  isExportMode => (~highlighted /\ ~isDraggingText)


(* The recorded samples with a timestamp in [trimStart - 1, trimEnd + 1] *)
SamplesInWindow(in) ==
  Cardinality({ i \in 1..Len(Traces[in.trace]) :
                  /\ Traces[in.trace][i].timestamp >= simTrimStart - Second
                  /\ Traces[in.trace][i].timestamp <= simTrimEnd + Second })

(* C23: with fewer than two samples inside [trimStart - 1, trimEnd + 1],    *)
(* whatever was recorded, generateMotionPath returns the empty path at      *)
(* once: no iteration runs, nothing is sampled, nothing fails.              *)
C23_TooFewSamplesEmptyPath ==
  (zpc # "start" /\ SamplesInWindow(zin) < 2) =>
    /\ zpc = "play"
    /\ path = <<>>
    /\ state = NoState
    /\ interaction = NoInteraction
    /\ target = NoTarget

(* Three samples recorded, one of them inside the window: the generator     *)
(* has returned and the playback resolves frames without a path             *)
C23_Witness ==
  /\ zpc = "play"
  /\ Len(Traces[zin.trace]) >= 2
  /\ SamplesInWindow(zin) = 1
  /\ path = <<>>
  /\ playTime > 0

(* The samples before and from index i bracket t *)
Brackets(data, i, t) ==
  /\ data[i].timestamp < t
  /\ t <= data[i + 1].timestamp

(* v lies between a and b *)
Between(v, a, b) == (a <= v /\ v <= b) \/ (b <= v /\ v <= a)

(* p is the linear interpolation at t of samples i and i + 1 *)
LinearAt(data, i, t, p) ==
  /\ data[i + 1].timestamp - data[i].timestamp > 0
  /\ Between(p.x, data[i].x, data[i + 1].x)
  /\ Between(p.y, data[i].y, data[i + 1].y)
  /\ (data[i + 1].timestamp - data[i].timestamp) * (p.x - data[i].x)
       - (data[i + 1].x - data[i].x) * (t - data[i].timestamp)
         \in -(data[i + 1].timestamp - data[i].timestamp)
             ..(data[i + 1].timestamp - data[i].timestamp)
  /\ (data[i + 1].timestamp - data[i].timestamp) * (p.y - data[i].y)
       - (data[i + 1].y - data[i].y) * (t - data[i].timestamp)
         \in -(data[i + 1].timestamp - data[i].timestamp)
             ..(data[i + 1].timestamp - data[i].timestamp)

(* p is what C24 says of sample(data, t) *)
SampledAsStated(data, t, p) ==
  IF t <= data[1].timestamp
  THEN p = [x |-> data[1].x, y |-> data[1].y]
  ELSE IF t >= data[Len(data)].timestamp
       THEN p = [x |-> data[Len(data)].x, y |-> data[Len(data)].y]
       ELSE \E i \in 1..(Len(data) - 1) :
              Brackets(data, i, t) /\ LinearAt(data, i, t, p)

(* C24: on a time-sorted trace of two samples or more, duplicate            *)
(* timestamps included, the position sampled at the time of a tick is the   *)
(* first position up to the first timestamp, the last position from the     *)
(* last timestamp on, and in between the linear interpolation of the two    *)
(* bracketing samples, between their coordinates on each axis and with a    *)
(* positive time difference as the divisor.                                 *)
C24_SampleInterpolates ==
  (zpc \in {"sim", "play"} /\ target # NoTarget) =>
    SampledAsStated(FilteredData(zin), target.t, interaction.lastPos)

(* The tick after two samples with the same timestamp: the position lies    *)
(* strictly between the later of the two and the sample that follows        *)
C24_Witness ==
  /\ zpc = "sim"
  /\ zin.trace = "dup"
  /\ target.t = Second \div 2 + PhysicsDt
  /\ interaction.lastPos.x > 900 * PosUnit
  /\ interaction.lastPos.x < 1200 * PosUnit


(* A frame was drawn in this step *)
FrameDrawn == squishIn'.odd # squishIn.odd

(* The target of the frame drawn in this step, as C25 states it *)
StatedTarget ==
  IF \/ squishIn'.isClicked
     \/ /\ lastHoldTime >= 0
        /\ squishIn'.time - lastHoldTime > 0
        /\ squishIn'.time - lastHoldTime < CLICK_FUSE_THRESHOLD
  THEN SquishedScale ELSE ReleasedScale

(* One step of the renderer keeps to C25 *)
SquishStep ==
  /\ currentSquishScale' >= SquishedScale
  /\ currentSquishScale' <= ReleasedScale
  /\ (FrameDrawn /\ squishIn'.inside) =>
       /\ Between(currentSquishScale', currentSquishScale, StatedTarget)
       /\ squishIn'.elapsed > 0 /\ currentSquishScale # StatedTarget
            => currentSquishScale' # currentSquishScale
  /\ (FrameDrawn /\ ~squishIn'.inside) =>
       currentSquishScale' = currentSquishScale
  /\ (~FrameDrawn /\ animating /\ ~animating') =>
       currentSquishScale' = ReleasedScale

(* C25: the squish scale stays within [0.75, 1.0]; a frame that draws the   *)
(* cursor moves it toward 0.75 when the pointer is clicked or the frame is  *)
(* within the fuse window after the last clicked frame, toward 1.0          *)
(* otherwise, never past the target; stopping a running loop resets it to   *)
(* 1.0.                                                                     *)
C25_SquishScale == [][SquishStep]_vars

(* A frame inside the fuse window after a clicked frame, the pointer        *)
(* released: the scale is part of the way between 1.0 and 0.75              *)
C25_Witness ==
  /\ squishIn.inside
  /\ ~squishIn.isClicked
  /\ lastHoldTime = 10
  /\ squishIn.time = 17
  /\ currentSquishScale > SquishedScale
  /\ currentSquishScale < ReleasedScale
  /\ animating


(* C26: the viewport used by the position clamp of a tick is the viewport   *)
(* of the zoom recorded for that tick: the zoom the half sizes hw and hh    *)
(* were computed from is, once rounded as the entry is, the entry's zoom.   *)
C26_ClampViewportOfRecordedZoom ==
  (zpc = "sim" /\ target # NoTarget /\ Len(path) > 0) =>
    path[Len(path)].zoom = ToFixedZoom(target.preZoom)


(* The pointer moved less than 2 px between the positions sampled by the    *)
(* previous tick and by this one                                            *)
MovedLessThanTwo ==
  /\ Abs(interaction'.lastPos.x - interaction.lastPos.x) < 2 * PosUnit
  /\ Abs(interaction'.lastPos.y - interaction.lastPos.y) < 2 * PosUnit
  /\ (interaction'.lastPos.x - interaction.lastPos.x)
       * (interaction'.lastPos.x - interaction.lastPos.x)
     + (interaction'.lastPos.y - interaction.lastPos.y)
       * (interaction'.lastPos.y - interaction.lastPos.y)
     < 4 * PosUnit * PosUnit

(* One tick of the simulation keeps to C27 *)
DwellStep ==
  (zpc = "sim" /\ simT' # simT) =>
    /\ interaction'.hoverTime >= 0
    /\ interaction'.hoverTime =
         IF MovedLessThanTwo
         THEN interaction.hoverTime + PhysicsDt
         ELSE IF interaction.hoverTime > 2 * PhysicsDt
              THEN interaction.hoverTime - 2 * PhysicsDt
              ELSE 0
    /\ interaction'.hoverTime > 2 * Second => target'.ruleZoom = MAX_ZOOM

(* C27: the dwell accumulator is never negative; a tick adds dt when the    *)
(* pointer moved less than 2 px since the previous tick and otherwise takes *)
(* 2 * dt off, down to 0 at most; whenever it exceeds 2.0 s the target zoom *)
(* before the edge pull-back and the keyframe blend is MAX_ZOOM.            *)
C27_DwellAccumulator == [][DwellStep]_vars

(* The pointer has rested for more than 2.0 s and starts to move: the       *)
(* velocity penalty would lower the zoom, the dwell rule sets MAX_ZOOM      *)
C27_Witness ==
  /\ zpc = "sim"
  /\ zin.trace = "dwellFast"
  /\ interaction.hoverTime > 2 * Second
  /\ target.velocity > 0
  /\ target.ruleZoom = MAX_ZOOM


(* The timestamps trimStart + k * step below trimEnd *)
ExportTimes(o) ==
  { t \in o.trimStart..(trimEnd(o) - 1) : (t - o.trimStart) % step(o) = 0 }

(* The export has processed every timestamp of its range, each frame the    *)
(* encoder produced is with the sink, finish was sent once and answered,    *)
(* and the exporter is Idle                                                 *)
ExportComplete ==
  /\ pc = "idle"
  /\ ~isExporting
  /\ finishCalls = 1
  /\ finishAcked
  /\ Len(progress) = Cardinality(ExportTimes(opts))
  /\ {sinkFrames[i].t : i \in 1..Len(sinkFrames)} \cup noBlob = ExportTimes(opts)

(* C28: a streaming export whose seeks all complete and whose sink calls    *)
(* all resolve, and which nobody cancels, comes to its end: every           *)
(* timestamp trimStart + k * step below trimEnd processed, finish sent,     *)
(* the exporter back in Idle.                                               *)
C28_StreamingTerminates ==
  (variant = 3 /\ pc = "load")
    ~> (ExportComplete \/ sinkError # "none" \/ shouldStop)


(* C29: every frame encoded for the sink has the width and the height       *)
(* negotiated with start_export_server, for every preset, source size and   *)
(* crop: drawing in export mode leaves the export canvas at the size set    *)
(* before the loop.                                                         *)
C29_FramesHaveNegotiatedSize ==
  \A size \in frameSizes : \A negotiated \in dimOut : size = negotiated


(* C30: the cursor position resolved for a frame is the one a renderer      *)
(* without a cache resolves from the time and the trace passed to that      *)
(* drawFrame call: the cache of the smoothed trace never serves another     *)
(* trace.                                                                   *)
C30_CursorOfPassedTrace ==
  cursorIn # NoCursorInput =>
    cursorOut = interpolateCursorPosition(<<>>, cursorIn.time,
                                          CursorTraces[cursorIn.trace])

=============================================================================
